---------------------------- MODULE Spec2Model ----------------------------
(***************************************************************************)
(* EmbyNotifier: the notification aggregator (notification_aggregator.py)  *)
(* with the parts of the parser it calls.  Handler threads run             *)
(* add_notification, threading.Timer threads run the deferred flush        *)
(* _send_aggregated_notification, and the main thread runs flush_all.      *)
(* self.lock is a non-reentrant threading.Lock.                            *)
(***************************************************************************)
EXTENDS Integers, Sequences, FiniteSets, TLC

(***************************************************************************)
(* Bounds of the model.                                                    *)
(***************************************************************************)
\* number of add_notification calls (one handler thread each)
MaxCalls == 3
\* aggregation_delay, in clock ticks
Delay == 2
\* number of add_notification calls that may be running at the same time
MaxInFlight == 1

Calls == 1..MaxCalls

(***************************************************************************)
(* Python values.  None is a value distinct from every identifier and      *)
(* every string; the empty dict is the function with the empty domain.     *)
(* An identifier is <<type, text>>: the JSON value may be a string or a    *)
(* number, and an f-string prints both as their text.                      *)
(***************************************************************************)
None == <<"None">>
EmptyDict == <<>>
StrId(s) == <<"str", s>>
IntId(s) == <<"int", s>>
\* a JSON number that is used as a number
Num(n) == <<"num", n>>

\* Python truthiness of an identifier: None, "" and 0 are falsy
Truthy(v) == v /= None /\ v /= StrId("") /\ v /= IntId("0")

\* str(v) as an f-string prints it
Fmt(v) == IF v = None THEN "None" ELSE v[2]

Digits == <<"0", "1", "2", "3", "4", "5", "6", "7", "8", "9">>

RECURSIVE Dec(_)
\* the decimal digits of a natural number, as a sequence of characters
Dec(n) == IF n < 10 THEN <<Digits[n + 1]>>
          ELSE Dec(n \div 10) \o <<Digits[(n % 10) + 1]>>

\* format spec :02d for a natural number
Fmt02d(n) == IF n < 10 THEN <<"0">> \o Dec(n) ELSE Dec(n)

(***************************************************************************)
(* Webhook payloads.  A payload is an object with the event type and a     *)
(* list-valued field 'tv' or 'mv' of entries {'Item': {...}}.              *)
(***************************************************************************)
EpisodeItem(series, season, index) ==
    [Type |-> "Episode", SeriesId |-> series, SeasonId |-> season,
     ParentIndexNumber |-> Num(1), IndexNumber |-> Num(index)]

MovieItem == [Type |-> "Movie", SeriesId |-> None, SeasonId |-> None,
              ParentIndexNumber |-> None, IndexNumber |-> None]

\* (SeriesId, SeasonId) pairs of the episodes submitted: the first two
\* differ and print to the same key text, the third prints to another
\* key, the fourth differs from the third only in the type of SeriesId
KeyedPairs == { <<StrId("1"), StrId("2_3")>>, <<StrId("1_2"), StrId("3")>>,
                <<StrId("1"), StrId("3")>>, <<IntId("1"), StrId("3")>> }

\* pairs with SeriesId or SeasonId absent or empty
UnkeyedPairs == { <<None, StrId("3")>>, <<StrId("1"), StrId("")>> }

\* the payloads the c-th call may carry: an episode (its IndexNumber is c,
\* so the episodes submitted have different codes), a movie, or no item
Payloads(c) ==
    { [Event |-> "library.new", tv |-> << [Item |-> EpisodeItem(p[1], p[2], c)] >>] :
          p \in KeyedPairs \cup UnkeyedPairs }
    \cup { [Event |-> "library.new", mv |-> << [Item |-> MovieItem] >>],
           [Event |-> "library.new", tv |-> << >>] }

(***************************************************************************)
(* parser.py                                                               *)
(***************************************************************************)
\* EmbyDataParser._extract_items (payloads are objects, never bare lists)
ExtractItems(data) ==
    IF "tv" \in DOMAIN data THEN data.tv
    ELSE IF "mv" \in DOMAIN data THEN data.mv
    ELSE <<data>>

\* the episode code made only of numbers that are truthy
ExtractSeasonInfoIfTruthy(item, is_episode) ==
    IF /\ is_episode
       /\ item.IndexNumber /= None /\ item.IndexNumber /= Num(0)
       /\ item.ParentIndexNumber /= None /\ item.ParentIndexNumber /= Num(0)
    THEN <<"S">> \o Fmt02d(item.ParentIndexNumber[2]) \o <<"E">> \o Fmt02d(item.IndexNumber[2])
    ELSE None

\* EmbyDataParser._extract_season_info: the episode code, or None
ExtractSeasonInfo(item, is_episode) ==
    IF is_episode /\ item.IndexNumber /= None /\ item.ParentIndexNumber /= None
    THEN <<"S">> \o Fmt02d(item.ParentIndexNumber[2]) \o <<"E">> \o Fmt02d(item.IndexNumber[2])
    ELSE None

\* EmbyDataParser.parse: the template variables the aggregator reads
Parse(data) ==
    LET items == ExtractItems(data) IN
    IF items = <<>> THEN EmptyDict
    ELSE LET item == items[1].Item
             is_episode == item.Type = "Episode"
         IN [media_type |-> IF is_episode THEN "tv" ELSE "movie",
             season_episode |-> ExtractSeasonInfo(item, is_episode),
             series_id |-> IF is_episode THEN item.SeriesId ELSE None]

(***************************************************************************)
(* Strings are sequences of characters.  Ord gives the code-point order of *)
(* the characters that occur in episode codes.                             *)
(***************************************************************************)
Alphabet == <<"-", "0", "1", "2", "3", "4", "5", "6", "7", "8", "9", "E", "S", "x">>

Ord(ch) == CHOOSE i \in 1..Len(Alphabet) : Alphabet[i] = ch

IsDigit(ch) == \E i \in 1..10 : Digits[i] = ch

DigitVal(ch) == (CHOOSE i \in 1..10 : Digits[i] = ch) - 1

RECURSIVE StrLess(_, _)
\* Python's < on two strings
StrLess(a, b) ==
    IF b = <<>> THEN FALSE
    ELSE IF a = <<>> THEN TRUE
    ELSE IF Head(a) /= Head(b) THEN Ord(Head(a)) < Ord(Head(b))
    ELSE StrLess(Tail(a), Tail(b))

RECURSIVE SplitOn(_, _, _)
\* str.split(sep) for a one-character separator; cur is the part being read
SplitOn(s, sep, cur) ==
    IF s = <<>> THEN <<cur>>
    ELSE IF Head(s) = sep THEN <<cur>> \o SplitOn(Tail(s), sep, <<>>)
    ELSE SplitOn(Tail(s), sep, Append(cur, Head(s)))

RECURSIVE DigitsValue(_, _)
DigitsValue(s, acc) ==
    IF s = <<>> THEN acc ELSE DigitsValue(Tail(s), 10 * acc + DigitVal(Head(s)))

\* int(s) succeeds on a non-empty string of digits, with an optional sign
\* (the codes of the model hold no whitespace or underscore)
IntOk(s) ==
    LET body == IF s /= <<>> /\ Head(s) = "-" THEN Tail(s) ELSE s
    IN body /= <<>> /\ \A i \in 1..Len(body) : IsDigit(body[i])

IntValue(s) ==
    IF Head(s) = "-" THEN 0 - DigitsValue(Tail(s), 0) ELSE DigitsValue(s, 0)

(***************************************************************************)
(* NotificationAggregator._merge_episode_ranges                            *)
(***************************************************************************)
\* lines 455-463: (season, episode, ep), or (0, 0, ep) when parsing raises
ParseEpisode(ep) ==
    LET parts == SplitOn(ep, "E", <<>>)
        seasonText == IF Len(parts) >= 1 /\ parts[1] /= <<>> THEN Tail(parts[1]) ELSE <<>>
    IN IF Len(parts) >= 2 /\ IntOk(seasonText) /\ IntOk(parts[2])
       THEN <<IntValue(seasonText), IntValue(parts[2]), ep>>
       ELSE <<0, 0, ep>>

\* Python's < on the tuples (season, episode, ep)
ParsedLess(a, b) ==
    \/ a[1] < b[1]
    \/ a[1] = b[1] /\ a[2] < b[2]
    \/ a[1] = b[1] /\ a[2] = b[2] /\ StrLess(a[3], b[3])

RECURSIVE InsertSorted(_, _)
InsertSorted(x, s) ==
    IF s = <<>> THEN <<x>>
    ELSE IF ParsedLess(x, Head(s)) THEN <<x>> \o s
    ELSE <<Head(s)>> \o InsertSorted(x, Tail(s))

\* the tuples left in the order of the episodes
SortParsedSkipped(s) == s

RECURSIVE SortParsed(_)
\* parsed.sort(): stable, ascending
SortParsed(s) ==
    IF s = <<>> THEN <<>>
    ELSE InsertSorted(s[Len(s)], SortParsed(SubSeq(s, 1, Len(s) - 1)))

\* :02d for an integer
Fmt02dInt(n) == IF n < 0 THEN <<"-">> \o (IF 0 - n < 10 THEN <<"0">> ELSE <<>>) \o Dec(0 - n)
                ELSE Fmt02d(n)

\* lines 484-487 and 495-498: one range as text
FormatRange(season, start, end) ==
    IF start = end
    THEN <<"S">> \o Fmt02dInt(season) \o <<"E">> \o Fmt02dInt(start)
    ELSE <<"S">> \o Fmt02dInt(season) \o <<"E">> \o Fmt02dInt(start)
            \o <<"-", "E">> \o Fmt02dInt(end)

RECURSIVE MergeLoopAnySeason(_, _, _, _, _)
\* a loop that extends a range whenever the episode number follows on
MergeLoopAnySeason(parsed, have, season, start, end) ==
    IF parsed = <<>>
    THEN IF have THEN <<[season |-> season, start |-> start, end |-> end]>> ELSE <<>>
    ELSE LET p == Head(parsed) IN
         IF ~have THEN MergeLoopAnySeason(Tail(parsed), TRUE, p[1], p[2], p[2])
         ELSE IF p[2] = end + 1
              THEN MergeLoopAnySeason(Tail(parsed), TRUE, season, start, p[2])
              ELSE <<[season |-> season, start |-> start, end |-> end]>>
                      \o MergeLoopAnySeason(Tail(parsed), TRUE, p[1], p[2], p[2])

RECURSIVE MergeLoop(_, _, _, _, _)
\* lines 474-498: the loop over the sorted tuples, then the last range;
\* have = (current_range_start is not None)
MergeLoop(parsed, have, season, start, end) ==
    IF parsed = <<>>
    THEN IF have THEN <<[season |-> season, start |-> start, end |-> end]>> ELSE <<>>
    ELSE LET p == Head(parsed) IN
         IF ~have THEN MergeLoop(Tail(parsed), TRUE, p[1], p[2], p[2])
         ELSE IF p[1] = season /\ p[2] = end + 1
              THEN MergeLoop(Tail(parsed), TRUE, season, start, p[2])
              ELSE <<[season |-> season, start |-> start, end |-> end]>>
                      \o MergeLoop(Tail(parsed), TRUE, p[1], p[2], p[2])

\* the ranges as (season, start, end) records, in output order
EpisodeRuns(episodes) ==
    LET parsed == [i \in 1..Len(episodes) |-> ParseEpisode(episodes[i])]
    IN MergeLoop(SortParsed(parsed), FALSE, 0, 0, 0)

\* _merge_episode_ranges: the list of range strings
MergeEpisodeRanges(episodes) ==
    LET runs == EpisodeRuns(episodes)
    IN [i \in 1..Len(runs) |-> FormatRange(runs[i].season, runs[i].start, runs[i].end)]

(***************************************************************************)
(* Rendering.  A message is what the title shows of the episodes: the      *)
(* list of episode tokens and, in a merged title, the episode count.       *)
(***************************************************************************)
RECURSIVE InsertString(_, _)
InsertString(x, s) ==
    IF s = <<>> THEN <<x>>
    ELSE IF StrLess(x, Head(s)) THEN <<x>> \o s
    ELSE <<Head(s)>> \o InsertString(x, Tail(s))

RECURSIVE SortStrings(_)
\* episodes.sort()
SortStrings(s) ==
    IF s = <<>> THEN <<>>
    ELSE InsertString(s[Len(s)], SortStrings(SubSeq(s, 1, Len(s) - 1)))

\* TemplateManager.render: the title template prints season_episode if set
Render(template_vars) ==
    [kind |-> "single",
     episode_str |-> IF template_vars.season_episode /= None
                     THEN <<template_vars.season_episode>> ELSE <<>>,
     count |-> 1]

RECURSIVE PresentEpisodes(_)
\* lines 301-305: the season_episode of every notification that has one
PresentEpisodes(notifications) ==
    IF notifications = <<>> THEN <<>>
    ELSE LET se == Head(notifications).template_vars.season_episode
         IN (IF se /= None /\ se /= <<>> THEN <<se>> ELSE <<>>)
               \o PresentEpisodes(Tail(notifications))

\* lines 307-316: episodes.sort(), then the tokens that episode_str joins
\* with ', '
EpisodeStr(codes) ==
    LET episodes == SortStrings(codes)
    IN IF Len(episodes) = 1 THEN <<episodes[1]>> ELSE MergeEpisodeRanges(episodes)

\* the merged title counting the episode codes instead of the notifications
CreateAggregatedMessageCountingCodes(notifications) ==
    [kind |-> "merged",
     episode_str |-> EpisodeStr(PresentEpisodes(notifications)),
     count |-> Len(PresentEpisodes(notifications))]

\* NotificationAggregator._create_aggregated_message (title part)
CreateAggregatedMessage(notifications) ==
    [kind |-> "merged",
     episode_str |-> EpisodeStr(PresentEpisodes(notifications)),
     count |-> Len(notifications)]

(***************************************************************************)
(* NotificationAggregator: keys and the consistency check                  *)
(***************************************************************************)
\* line 128: f"{series_id}_{season_id}"
AggregationKey(series_id, season_id) == Fmt(series_id) \o "_" \o Fmt(season_id)

\* the first entry's Item, or the empty dict (line 116, 251, 266)
FirstItem(data) ==
    LET items == ExtractItems(data) IN
    IF items = <<>> THEN EmptyDict ELSE items[1].Item

\* a check that passes every batch
AlwaysConsistent(notifications) == TRUE

\* a check that compares only the last notification with the first
ConsistentFirstAndLast(notifications) ==
    \/ Len(notifications) <= 1
    \/ /\ FirstItem(notifications[Len(notifications)].data).SeriesId
              = FirstItem(notifications[1].data).SeriesId
       /\ FirstItem(notifications[Len(notifications)].data).SeasonId
              = FirstItem(notifications[1].data).SeasonId

\* NotificationAggregator._validate_notifications_consistency
ValidateNotificationsConsistency(notifications) ==
    IF Len(notifications) <= 1 THEN TRUE
    ELSE LET first_data == notifications[1].data IN
         IF ExtractItems(first_data) = <<>> THEN FALSE
         ELSE LET expected_series_id == FirstItem(first_data).SeriesId
                  expected_season_id == FirstItem(first_data).SeasonId
              IN IF ~Truthy(expected_series_id) \/ ~Truthy(expected_season_id) THEN FALSE
                 ELSE \A i \in 2..Len(notifications) :
                        /\ ExtractItems(notifications[i].data) /= <<>>
                        /\ FirstItem(notifications[i].data).SeriesId = expected_series_id
                        /\ FirstItem(notifications[i].data).SeasonId = expected_season_id

(***************************************************************************)
(* State.  Threads: handler c in Calls runs the c-th add_notification      *)
(* call; timer thread t in Calls is the threading.Timer that call t        *)
(* starts; thread 0 is the main thread, which runs flush_all.  A flusher   *)
(* is a thread inside _send_aggregated_notification: a timer thread or,    *)
(* called from flush_all, the main thread.                                 *)
(*                                                                         *)
(* Time is kept relative: a timer holds the ticks left of its interval,    *)
(* and a submission the ticks since its add_notification call, counted up  *)
(* to Delay (an age of Delay reads "Delay or more").                       *)
(***************************************************************************)
VARIABLES
    pending_notifications,  \* self.pending_notifications: key -> list
    key_order,              \* its keys in insertion order (dict order)
    timers,                 \* self.timers: key -> timer
    lock,                   \* self.lock: the thread holding it, or Free
    cpc,                    \* handler c: idle, wait_lock, done
    cdata,                  \* handler c: the payload of its call
    ckey,                   \* handler c: aggregation_key
    cage,                   \* handler c: ticks since the call, until it appends
    cprev,                  \* handler c: the call that last submitted to the
                            \*   key, if less than Delay before; else NoCall
    cret,                   \* handler c: the value add_notification returned
    csent,                  \* handler c: its send_message calls
    fpc,                    \* flusher: new, waiting, enter, send, done
    fkey,                   \* flusher: the aggregation_key argument
    fbatch,                 \* flusher: notifications, popped and not yet sent
    fsent,                  \* flusher: its send_message calls
    fages,                  \* flusher: id, age and prev of the notifications
                            \*   it sent, as they were at the send
    tleft,                  \* timer t: ticks left of its interval
    tcancel,                \* timer t: cancel() was called on it
    mpc,                    \* flush_all: idle, loop, in_flush, returned
    mkeys,                  \* flush_all: the keys still to visit
    mlive,                  \* timers scheduled when flush_all started
    input,                  \* the argument a function is applied to
    output                  \* what the function returned

vars == <<pending_notifications, key_order, timers, lock, cpc, cdata, ckey,
          cage, cprev, cret, csent, fpc, fkey, fbatch, fsent, fages, tleft, tcancel,
          mpc, mkeys, mlive, input, output>>

pureVars == <<input, output>>
callVars == <<cpc, cdata, ckey, cage, cprev, cret, csent>>
flushVars == <<fpc, fkey, fbatch, fsent, fages>>
mainVars == <<mpc, mkeys, mlive>>
mapVars == <<pending_notifications, key_order, timers>>

Main == 0
Flushers == 0..MaxCalls
Free == <<"free", 0>>
\* the thread a flusher runs in: a timer thread, or the main thread
FlushThread(th) == IF th = Main THEN <<"main", 0>> ELSE <<"timer", th>>

NoKey == ""
NoCall == 0
NoData == [Event |-> "none"]

Idle ==
    /\ pending_notifications = <<>>
    /\ key_order = <<>>
    /\ timers = <<>>
    /\ lock = Free
    /\ cpc = [c \in Calls |-> "idle"]
    /\ cdata = [c \in Calls |-> NoData]
    /\ ckey = [c \in Calls |-> NoKey]
    /\ cage = [c \in Calls |-> 0]
    /\ cprev = [c \in Calls |-> NoCall]
    /\ cret = [c \in Calls |-> "-"]
    /\ csent = [c \in Calls |-> <<>>]
    /\ fpc = [th \in Flushers |-> "new"]
    /\ fkey = [th \in Flushers |-> NoKey]
    /\ fbatch = [th \in Flushers |-> <<>>]
    /\ fsent = [th \in Flushers |-> <<>>]
    /\ fages = [th \in Flushers |-> <<>>]
    /\ tleft = [t \in Calls |-> 0]
    /\ tcancel = [t \in Calls |-> FALSE]
    /\ mpc = "idle"
    /\ mkeys = <<>>
    /\ mlive = {}

\* no function applied yet
NoInput == [fn |-> "none", arg |-> <<>>]
NoOutput == <<>>

Init == Idle /\ input = NoInput /\ output = NoOutput

\* a started threading.Timer still waiting for its interval, not cancelled
Scheduled(t) == fpc[t] = "waiting" /\ ~tcancel[t]

\* an age one tick later
Aged(age) == IF age < Delay THEN age + 1 ELSE age

\* a list of notifications one tick later
Older(notifications) ==
    [i \in 1..Len(notifications) |->
        [notifications[i] EXCEPT !.age = Aged(@)]]

\* One tick of the clock.  The program reads the clock only through its
\* timers, so the model lets it advance only while a scheduled timer is
\* not yet due.
Tick ==
    /\ \E t \in Calls : Scheduled(t) /\ tleft[t] > 0
    /\ tleft' = [t \in Calls |-> IF Scheduled(t) /\ tleft[t] > 0
                                 THEN tleft[t] - 1 ELSE tleft[t]]
    /\ cage' = [c \in Calls |-> IF cpc[c] = "wait_lock" THEN Aged(cage[c]) ELSE cage[c]]
    /\ pending_notifications' =
           [k \in DOMAIN pending_notifications |-> Older(pending_notifications[k])]
    /\ fbatch' = [th \in Flushers |-> Older(fbatch[th])]
    /\ UNCHANGED pureVars
    /\ UNCHANGED <<key_order, timers, lock, cpc, cdata, ckey, cprev, cret, csent,
                   fpc, fkey, fsent, fages, tcancel, mainVars>>

(***************************************************************************)
(* add_notification                                                        *)
(***************************************************************************)
\* one telegram_client.send_message call and its result: the message, the
\* calls whose notifications it was rendered from, whether a photo_url
\* argument was passed, and the sender's answer
SendRecord(msg, ids, photo, ok) ==
    [msg |-> msg, notifs |-> ids, photo |-> photo, ok |-> ok]

\* the sender's answer negated
NegatedBool(b) == IF b THEN "False" ELSE "True"

\* the sender's answer as the Python value returned
PyBool(b) == IF b THEN "True" ELSE "False"

\* send at once and return True whatever the sender answers
SendNowIgnoringResult(c, template_vars, ok) ==
    /\ csent' = [csent EXCEPT ![c] =
                    Append(@, [msg |-> Render(template_vars), notifs |-> <<c>>,
                               photo |-> TRUE, ok |-> ok])]
    /\ cret' = [cret EXCEPT ![c] = "True"]
    /\ cpc' = [cpc EXCEPT ![c] = "done"]
    /\ UNCHANGED <<ckey, cprev>>

\* _send_movie_notification and _send_episode_notification: render and
\* send at once, return the sender's answer
SendNow(c, template_vars, ok) ==
    /\ csent' = [csent EXCEPT ![c] =
                    Append(@, SendRecord(Render(template_vars), <<c>>, TRUE, ok))]
    /\ cret' = [cret EXCEPT ![c] = PyBool(ok)]
    /\ cpc' = [cpc EXCEPT ![c] = "done"]
    /\ UNCHANGED <<ckey, cprev>>

\* return False without sending
ReturnFalse(c) ==
    /\ cret' = [cret EXCEPT ![c] = "False"]
    /\ cpc' = [cpc EXCEPT ![c] = "done"]
    /\ UNCHANGED <<csent, ckey, cprev>>

\* the call whose submission is the last of key's pending batch, if it was
\* made less than Delay ago
RecentlySubmitted(key) ==
    IF /\ key \in DOMAIN pending_notifications
       /\ pending_notifications[key] /= <<>>
       /\ pending_notifications[key][Len(pending_notifications[key])].age < Delay
    THEN pending_notifications[key][Len(pending_notifications[key])].id
    ELSE NoCall

\* a test of media_type that no payload passes
IsEpisodeNever(template_vars) == template_vars.media_type = "episode"

\* line 92: is_episode
IsEpisode(template_vars) == template_vars.media_type = "tv"

\* a test of series_id alone
MissingSeriesOnly(item) == ~Truthy(item.SeriesId)

\* line 120: not series_id or not season_id
MissingKey(item) == ~Truthy(item.SeriesId) \/ ~Truthy(item.SeasonId)

\* add_notification(data): lines 73-99 and 109-133, up to either a return
\* or the `with self.lock` of line 135.  ok is what the sender answers if
\* the call sends.  Calls are numbered in the order they are made, at most
\* MaxInFlight run at a time, and none is made once flush_all has begun.
AddNotification(c, data, ok) ==
    /\ cpc[c] = "idle"
    /\ \A b \in 1..(c - 1) : cpc[b] /= "idle"
    /\ Cardinality({b \in Calls : cpc[b] = "wait_lock"}) < MaxInFlight
    /\ mpc = "idle"
    /\ cdata' = [cdata EXCEPT ![c] = data]
    /\ LET template_vars == Parse(data)
           item == FirstItem(data)
       IN IF template_vars = EmptyDict THEN ReturnFalse(c)
          ELSE IF ~IsEpisode(template_vars) THEN SendNow(c, template_vars, ok)
          ELSE IF ExtractItems(data) = <<>> THEN ReturnFalse(c)
          ELSE IF MissingKey(item) THEN SendNow(c, template_vars, ok)
          ELSE LET key == AggregationKey(item.SeriesId, item.SeasonId) IN
               /\ ckey' = [ckey EXCEPT ![c] = key]
               /\ cprev' = [cprev EXCEPT ![c] = RecentlySubmitted(key)]
               /\ cpc' = [cpc EXCEPT ![c] = "wait_lock"]
               /\ UNCHANGED <<csent, cret>>
    /\ UNCHANGED pureVars
    /\ UNCHANGED <<mapVars, lock, cage, flushVars, tleft, tcancel, mainVars>>

\* the notification lines 137-141 append.  id, age and prev are history:
\* the call that submitted it, the ticks since that call, and the call it
\* followed by less than Delay (the code stores the time of the append, and
\* never reads it)
Notification(c) ==
    [id |-> c, age |-> cage[c], prev |-> cprev[c],
     template_vars |-> Parse(cdata[c]), data |-> cdata[c]]

\* cancel() on every timer that is waiting, whatever its key
CancelEveryTimer(key) == [t \in Calls |-> tcancel[t] \/ fpc[t] = "waiting"]

\* Timer.cancel() on the timer stored for key, if there is one
CancelTimer(key) ==
    IF key \in DOMAIN timers THEN [tcancel EXCEPT ![timers[key]] = TRUE] ELSE tcancel

\* the block of lines 135-158 starting a timer only for a key without one
AddCriticalNoRestart(c) ==
    LET key == ckey[c]
        old == IF key \in DOMAIN pending_notifications
               THEN pending_notifications[key] ELSE <<>>
        fresh == key \notin DOMAIN timers
    IN
    /\ cpc[c] = "wait_lock"
    /\ lock = Free
    /\ pending_notifications' =
           [k \in DOMAIN pending_notifications \cup {key} |->
               IF k = key THEN Append(old, Notification(c)) ELSE pending_notifications[k]]
    /\ key_order' = IF key \in DOMAIN pending_notifications
                    THEN key_order ELSE Append(key_order, key)
    /\ tcancel' = CancelTimer(key)
    /\ fpc' = IF fresh THEN [fpc EXCEPT ![c] = "waiting"] ELSE fpc
    /\ fkey' = [fkey EXCEPT ![c] = key]
    /\ tleft' = [tleft EXCEPT ![c] = Delay]
    /\ timers' = IF fresh THEN [k \in DOMAIN timers \cup {key} |->
                                   IF k = key THEN c ELSE timers[k]]
                 ELSE timers
    /\ cret' = [cret EXCEPT ![c] = "True"]
    /\ cpc' = [cpc EXCEPT ![c] = "done"]
    /\ cage' = [cage EXCEPT ![c] = 0]
    /\ cprev' = [cprev EXCEPT ![c] = NoCall]
    /\ UNCHANGED pureVars
    /\ UNCHANGED <<lock, cdata, ckey, csent, fbatch, fsent, fages, mainVars>>

\* the block of lines 135-158 with the notification put first in the list
AddCriticalPrepending(c) ==
    LET key == ckey[c]
        old == IF key \in DOMAIN pending_notifications
               THEN pending_notifications[key] ELSE <<>>
    IN
    /\ cpc[c] = "wait_lock"
    /\ lock = Free
    /\ pending_notifications' =
           [k \in DOMAIN pending_notifications \cup {key} |->
               IF k = key THEN <<Notification(c)>> \o old ELSE pending_notifications[k]]
    /\ key_order' = IF key \in DOMAIN pending_notifications
                    THEN key_order ELSE Append(key_order, key)
    /\ tcancel' = CancelTimer(key)
    /\ fpc' = [fpc EXCEPT ![c] = "waiting"]
    /\ fkey' = [fkey EXCEPT ![c] = key]
    /\ tleft' = [tleft EXCEPT ![c] = Delay]
    /\ timers' = [k \in DOMAIN timers \cup {key} |-> IF k = key THEN c ELSE timers[k]]
    /\ cret' = [cret EXCEPT ![c] = "True"]
    /\ cpc' = [cpc EXCEPT ![c] = "done"]
    /\ cage' = [cage EXCEPT ![c] = 0]
    /\ cprev' = [cprev EXCEPT ![c] = NoCall]
    /\ UNCHANGED pureVars
    /\ UNCHANGED <<lock, cdata, ckey, csent, fbatch, fsent, fages, mainVars>>

\* lines 135-158: with self.lock: append, cancel the key's timer, start a
\* new one; then return True.  The block runs under the lock, so it is one
\* step, taken when the lock is free.
AddCritical(c) ==
    LET key == ckey[c]
        old == IF key \in DOMAIN pending_notifications
               THEN pending_notifications[key] ELSE <<>>
    IN
    /\ cpc[c] = "wait_lock"
    /\ lock = Free
    /\ pending_notifications' =
           [k \in DOMAIN pending_notifications \cup {key} |->
               IF k = key THEN Append(old, Notification(c)) ELSE pending_notifications[k]]
    /\ key_order' = IF key \in DOMAIN pending_notifications
                    THEN key_order ELSE Append(key_order, key)
    /\ tcancel' = CancelTimer(key)
    /\ fpc' = [fpc EXCEPT ![c] = "waiting"]
    /\ fkey' = [fkey EXCEPT ![c] = key]
    /\ tleft' = [tleft EXCEPT ![c] = Delay]
    /\ timers' = [k \in DOMAIN timers \cup {key} |-> IF k = key THEN c ELSE timers[k]]
    /\ cret' = [cret EXCEPT ![c] = "True"]
    /\ cpc' = [cpc EXCEPT ![c] = "done"]
    /\ cage' = [cage EXCEPT ![c] = 0]
    /\ cprev' = [cprev EXCEPT ![c] = NoCall]
    /\ UNCHANGED pureVars
    /\ UNCHANGED <<lock, cdata, ckey, csent, fbatch, fsent, fages, mainVars>>

(***************************************************************************)
(* threading.Timer.run and _send_aggregated_notification                   *)
(***************************************************************************)
\* Timer.run: the wait for the interval ended and finished is not set, so
\* the function will be called; a later cancel() does not stop it
TimerExpire(t) ==
    /\ t \in Calls
    /\ Scheduled(t)
    /\ tleft[t] = 0
    /\ fpc' = [fpc EXCEPT ![t] = "enter"]
    /\ UNCHANGED pureVars
    /\ UNCHANGED <<mapVars, lock, callVars, fkey, fbatch, fsent, fages,
                   tleft, tcancel, mainVars>>

\* the return of _send_aggregated_notification to its caller
FlushReturn(th) ==
    /\ fpc' = [fpc EXCEPT ![th] = "done"]
    /\ mpc' = IF th = Main THEN "loop" ELSE mpc

RECURSIVE RemoveKey(_, _)
RemoveKey(order, key) ==
    IF order = <<>> THEN <<>>
    ELSE IF Head(order) = key THEN Tail(order)
    ELSE <<Head(order)>> \o RemoveKey(Tail(order), key)

\* the block of lines 187-196 going on to the send for a key that is gone
FlushCriticalSendingAnyway(th) ==
    LET key == fkey[th] IN
    /\ fpc[th] = "enter"
    /\ lock = Free
    /\ IF key \notin DOMAIN pending_notifications
       THEN /\ fpc' = [fpc EXCEPT ![th] = "send"]
            /\ UNCHANGED <<mapVars, fbatch, mpc>>
       ELSE /\ pending_notifications' =
                  [k \in DOMAIN pending_notifications \ {key} |-> pending_notifications[k]]
            /\ key_order' = RemoveKey(key_order, key)
            /\ timers' = [k \in DOMAIN timers \ {key} |-> timers[k]]
            /\ fbatch' = [fbatch EXCEPT ![th] = pending_notifications[key]]
            /\ IF pending_notifications[key] = <<>>
               THEN FlushReturn(th)
               ELSE /\ fpc' = [fpc EXCEPT ![th] = "send"]
                    /\ UNCHANGED mpc
    /\ UNCHANGED pureVars
    /\ UNCHANGED <<lock, callVars, fkey, fsent, fages, tleft, tcancel, mkeys, mlive>>

\* the block of lines 187-196 without the deletion of the timer entry
FlushCriticalKeepingTimer(th) ==
    LET key == fkey[th] IN
    /\ fpc[th] = "enter"
    /\ lock = Free
    /\ IF key \notin DOMAIN pending_notifications
       THEN /\ FlushReturn(th)
            /\ UNCHANGED <<mapVars, fbatch>>
       ELSE /\ pending_notifications' =
                  [k \in DOMAIN pending_notifications \ {key} |-> pending_notifications[k]]
            /\ key_order' = RemoveKey(key_order, key)
            /\ UNCHANGED timers
            /\ fbatch' = [fbatch EXCEPT ![th] = pending_notifications[key]]
            /\ IF pending_notifications[key] = <<>>
               THEN FlushReturn(th)
               ELSE /\ fpc' = [fpc EXCEPT ![th] = "send"]
                    /\ UNCHANGED mpc
    /\ UNCHANGED pureVars
    /\ UNCHANGED <<lock, callVars, fkey, fsent, fages, tleft, tcancel, mkeys, mlive>>

\* the block of lines 187-196 reading the batch and leaving it in the map
FlushCriticalKeepingBatch(th) ==
    LET key == fkey[th] IN
    /\ fpc[th] = "enter"
    /\ lock = Free
    /\ IF key \notin DOMAIN pending_notifications
       THEN /\ FlushReturn(th)
            /\ UNCHANGED <<mapVars, fbatch>>
       ELSE /\ UNCHANGED <<pending_notifications, key_order>>
            /\ timers' = [k \in DOMAIN timers \ {key} |-> timers[k]]
            /\ fbatch' = [fbatch EXCEPT ![th] = pending_notifications[key]]
            /\ IF pending_notifications[key] = <<>>
               THEN FlushReturn(th)
               ELSE /\ fpc' = [fpc EXCEPT ![th] = "send"]
                    /\ UNCHANGED mpc
    /\ UNCHANGED pureVars
    /\ UNCHANGED <<lock, callVars, fkey, fsent, fages, tleft, tcancel, mkeys, mlive>>

\* the block of lines 187-196 under a lock that its holder can take again
FlushCriticalReentrant(th) ==
    LET key == fkey[th] IN
    /\ fpc[th] = "enter"
    /\ lock = Free \/ lock = FlushThread(th)
    /\ IF key \notin DOMAIN pending_notifications
       THEN /\ FlushReturn(th)
            /\ UNCHANGED <<mapVars, fbatch>>
       ELSE /\ pending_notifications' =
                  [k \in DOMAIN pending_notifications \ {key} |-> pending_notifications[k]]
            /\ key_order' = RemoveKey(key_order, key)
            /\ timers' = [k \in DOMAIN timers \ {key} |-> timers[k]]
            /\ fbatch' = [fbatch EXCEPT ![th] = pending_notifications[key]]
            /\ IF pending_notifications[key] = <<>>
               THEN FlushReturn(th)
               ELSE /\ fpc' = [fpc EXCEPT ![th] = "send"]
                    /\ UNCHANGED mpc
    /\ UNCHANGED pureVars
    /\ UNCHANGED <<lock, callVars, fkey, fsent, fages, tleft, tcancel, mkeys, mlive>>

\* lines 187-196: with self.lock: pop the batch and delete the timer entry.
\* The block runs under the lock, so it is one step, taken when the lock is
\* free: self.lock is a threading.Lock, which its holder cannot take again.
FlushCritical(th) ==
    LET key == fkey[th] IN
    /\ fpc[th] = "enter"
    /\ lock = Free
    /\ IF key \notin DOMAIN pending_notifications
       THEN /\ FlushReturn(th)
            /\ UNCHANGED <<mapVars, fbatch>>
       ELSE /\ pending_notifications' =
                  [k \in DOMAIN pending_notifications \ {key} |-> pending_notifications[k]]
            /\ key_order' = RemoveKey(key_order, key)
            /\ timers' = [k \in DOMAIN timers \ {key} |-> timers[k]]
            /\ fbatch' = [fbatch EXCEPT ![th] = pending_notifications[key]]
            /\ IF pending_notifications[key] = <<>>
               THEN FlushReturn(th)
               ELSE /\ fpc' = [fpc EXCEPT ![th] = "send"]
                    /\ UNCHANGED mpc
    /\ UNCHANGED pureVars
    /\ UNCHANGED <<lock, callVars, fkey, fsent, fages, tleft, tcancel, mkeys, mlive>>

\* the ids of the notifications of a batch
Ids(notifications) == [i \in 1..Len(notifications) |-> notifications[i].id]

\* the number of send_message calls a popped batch leads to
NumMessages(notifications) ==
    IF ~ValidateNotificationsConsistency(notifications) THEN Len(notifications) ELSE 1

\* lines 198-223: the messages a popped batch is sent as; oks[i] is what
\* the sender answers to the i-th send_message
FlushMessages(notifications, oks) ==
    IF ~ValidateNotificationsConsistency(notifications)
    THEN [i \in 1..Len(notifications) |->
             SendRecord(Render(notifications[i].template_vars),
                        <<notifications[i].id>>, FALSE, oks[i])]
    ELSE IF Len(notifications) = 1
    THEN << SendRecord(Render(notifications[1].template_vars),
                       Ids(notifications), TRUE, oks[1]) >>
    ELSE << SendRecord(CreateAggregatedMessage(notifications),
                       Ids(notifications), TRUE, oks[1]) >>

\* the send of lines 198-223 with the batch put back when it is not delivered
FlushSendRequeueing(th) ==
    /\ fpc[th] = "send"
    /\ \E oks \in [1..NumMessages(fbatch[th]) -> BOOLEAN] :
          /\ fsent' = [fsent EXCEPT ![th] = FlushMessages(fbatch[th], oks)]
          /\ pending_notifications' =
                 IF oks[1] THEN pending_notifications
                 ELSE [k \in DOMAIN pending_notifications \cup {fkey[th]} |->
                          IF k = fkey[th]
                          THEN fbatch[th] \o (IF k \in DOMAIN pending_notifications
                                              THEN pending_notifications[k] ELSE <<>>)
                          ELSE pending_notifications[k]]
    /\ fages' = [fages EXCEPT ![th] =
                    [i \in 1..Len(fbatch[th]) |->
                        [id |-> fbatch[th][i].id, age |-> fbatch[th][i].age,
                         prev |-> fbatch[th][i].prev]]]
    /\ fbatch' = [fbatch EXCEPT ![th] = <<>>]
    /\ FlushReturn(th)
    /\ UNCHANGED pureVars
    /\ UNCHANGED <<key_order, timers, lock, callVars, fkey, tleft, tcancel, mkeys, mlive>>

\* lines 198-223: validate, render and send outside the lock
FlushSend(th) ==
    /\ fpc[th] = "send"
    /\ \E oks \in [1..NumMessages(fbatch[th]) -> BOOLEAN] :
          fsent' = [fsent EXCEPT ![th] = FlushMessages(fbatch[th], oks)]
    /\ fages' = [fages EXCEPT ![th] =
                    [i \in 1..Len(fbatch[th]) |->
                        [id |-> fbatch[th][i].id, age |-> fbatch[th][i].age,
                         prev |-> fbatch[th][i].prev]]]
    /\ fbatch' = [fbatch EXCEPT ![th] = <<>>]
    /\ FlushReturn(th)
    /\ UNCHANGED pureVars
    /\ UNCHANGED <<mapVars, lock, callVars, fkey, tleft, tcancel, mkeys, mlive>>

(***************************************************************************)
(* flush_all, run by the main thread at shutdown.  Upstream has stopped    *)
(* routing before the drain begins: no add_notification call is in flight  *)
(* and none starts afterwards.                                             *)
(***************************************************************************)
\* lines 596-597: with self.lock; keys = list(...)
FlushAllStart ==
    /\ mpc = "idle"
    /\ \A c \in Calls : cpc[c] \in {"idle", "done"}
    /\ lock = Free
    /\ lock' = FlushThread(Main)
    /\ mkeys' = key_order
    /\ mlive' = {t \in Calls : Scheduled(t)}
    /\ mpc' = "loop"
    /\ UNCHANGED pureVars
    /\ UNCHANGED <<mapVars, callVars, flushVars, tleft, tcancel>>

\* lines 598-603: one iteration of the loop, up to the call of
\* _send_aggregated_notification(key); after the last key the with block
\* ends and flush_all returns
FlushAllLoop ==
    /\ mpc = "loop"
    /\ IF mkeys = <<>>
       THEN /\ lock' = Free
            /\ mpc' = "returned"
            /\ UNCHANGED <<mkeys, tcancel, fpc, fkey>>
       ELSE LET key == Head(mkeys) IN
            /\ tcancel' = CancelTimer(key)
            /\ fpc' = [fpc EXCEPT ![Main] = "enter"]
            /\ fkey' = [fkey EXCEPT ![Main] = key]
            /\ mkeys' = Tail(mkeys)
            /\ mpc' = "in_flush"
            /\ UNCHANGED lock
    /\ UNCHANGED pureVars
    /\ UNCHANGED <<mapVars, callVars, fbatch, fsent, fages, tleft, mlive>>

Next ==
    \/ Tick
    \/ \E c \in Calls : \E data \in Payloads(c), ok \in BOOLEAN : AddNotification(c, data, ok)
    \/ \E c \in Calls : AddCritical(c)
    \/ \E t \in Calls : TimerExpire(t)
    \/ \E th \in Flushers : FlushCritical(th)
    \/ \E th \in Flushers : FlushSend(th)
    \/ FlushAllStart
    \/ FlushAllLoop

Spec == Init /\ [][Next]_vars

(***************************************************************************)
(* The aggregator while the program runs: flush_all is not called.  Time   *)
(* passes, a timer whose interval has ended runs its function, and a       *)
(* thread that waits for the lock or is about to send goes on.             *)
(***************************************************************************)
NextRunning ==
    \/ Tick
    \/ \E c \in Calls : \E data \in Payloads(c), ok \in BOOLEAN : AddNotification(c, data, ok)
    \/ \E c \in Calls : AddCritical(c)
    \/ \E t \in Calls : TimerExpire(t)
    \/ \E th \in Flushers : FlushCritical(th)
    \/ \E th \in Flushers : FlushSend(th)

\* the steps up to the send that need no new request: the clock, the
\* timers, the threads at the lock
Internal ==
    \/ Tick
    \/ \E c \in Calls : AddCritical(c)
    \/ \E t \in Calls : TimerExpire(t)
    \/ \E th \in Flushers : FlushCritical(th)

\* what FlushSend(th) does to the flusher's position; the steps of
\* NextRunning that do this are the FlushSend(th) steps
FlushSendDone(th) == fpc[th] = "send" /\ fpc' = [fpc EXCEPT ![th] = "done"]

\* the program does not stop while one of these steps can be taken, and a
\* flusher that is about to send does send
Progress ==
    /\ WF_vars(Internal)
    /\ WF_fpc(\E th \in Flushers : FlushSendDone(th))

SpecRunning == Init /\ [][NextRunning]_vars /\ Progress

(***************************************************************************)
(* The webhook route of app.py in front of the aggregator.  The route      *)
(* never calls flush_all.                                                  *)
(***************************************************************************)
\* a first entry that carries the event type itself
EventEntry(event, c) ==
    [Event |-> event, Item |-> EpisodeItem(StrId("1"), StrId("3"), c)]

\* payloads whose event type is 'library.new': named at the top, or, with
\* no 'Event' at the top, in the first entry
NewItemPayloads(c) ==
    { [Event |-> "library.new", tv |-> << [Item |-> EpisodeItem(StrId("1"), StrId("3"), c)] >>],
      [Event |-> "library.new", mv |-> << [Item |-> MovieItem] >>],
      [tv |-> << EventEntry("library.new", c) >>] }

\* payloads with another event type: another event, an event that differs
\* in case, and another event at the top with 'library.new' in the entry
OtherEventPayloads(c) ==
    { [Event |-> "library.deleted", tv |-> << [Item |-> EpisodeItem(StrId("1"), StrId("3"), c)] >>],
      [Event |-> "Library.New", tv |-> << [Item |-> EpisodeItem(StrId("1"), StrId("3"), c)] >>],
      [Event |-> "playback.start", tv |-> << EventEntry("library.new", c) >>] }

\* payloads with no event type: no 'Event' at the top or in the first entry
NoEventPayloads(c) ==
    { [tv |-> << [Item |-> EpisodeItem(StrId("1"), StrId("3"), c)] >>],
      [mv |-> << >>] }

WebhookPayloads(c) ==
    NewItemPayloads(c) \cup OtherEventPayloads(c) \cup NoEventPayloads(c) \cup {EmptyDict}

\* dict.get('Event') of a first entry
EntryEvent(entry) == IF "Event" \in DOMAIN entry THEN StrId(entry.Event) ELSE None

\* an event type read from the first entry, whatever the top names
GetEventOfFirstEntry(data) ==
    IF "tv" \in DOMAIN data /\ Len(data.tv) > 0 THEN EntryEvent(data.tv[1])
    ELSE IF "mv" \in DOMAIN data /\ Len(data.mv) > 0 THEN EntryEvent(data.mv[1])
    ELSE IF "Event" \in DOMAIN data THEN StrId(data.Event)
    ELSE None

\* EmbyDataParser.get_event for a JSON object
GetEvent(data) ==
    IF "Event" \in DOMAIN data THEN StrId(data.Event)
    ELSE IF "tv" \in DOMAIN data /\ Len(data.tv) > 0 THEN EntryEvent(data.tv[1])
    ELSE IF "mv" \in DOMAIN data /\ Len(data.mv) > 0 THEN EntryEvent(data.mv[1])
    ELSE None

\* the route answers without calling the aggregator
Respond(c, data, status) ==
    /\ cpc[c] = "idle"
    /\ \A b \in 1..(c - 1) : cpc[b] /= "idle"
    /\ Cardinality({b \in Calls : cpc[b] = "wait_lock"}) < MaxInFlight
    /\ cdata' = [cdata EXCEPT ![c] = data]
    /\ cret' = [cret EXCEPT ![c] = status]
    /\ cpc' = [cpc EXCEPT ![c] = "done"]
    /\ UNCHANGED <<csent, ckey, cprev>>
    /\ UNCHANGED pureVars
    /\ UNCHANGED <<mapVars, lock, cage, flushVars, tleft, tcancel, mainVars>>

\* webhook(), up to the return of add_notification
Webhook(c, data, ok) ==
    IF data = EmptyDict THEN Respond(c, data, "400")
    ELSE IF GetEvent(data) /= StrId("library.new") THEN Respond(c, data, "ignored")
    ELSE AddNotification(c, data, ok)

NextWebhook ==
    \/ Tick
    \/ \E c \in Calls : \E data \in WebhookPayloads(c), ok \in BOOLEAN : Webhook(c, data, ok)
    \/ \E c \in Calls : AddCritical(c)
    \/ \E t \in Calls : TimerExpire(t)
    \/ \E th \in Flushers : FlushCritical(th)
    \/ \E th \in Flushers : FlushSend(th)

SpecWebhook == Init /\ [][NextWebhook]_vars

(***************************************************************************)
(* The functions of the message text, each applied to an argument drawn    *)
(* from a bounded set.  The aggregator stays as constructed.               *)
(***************************************************************************)
MaxList == 4

\* f"S{season:02d}E{episode:02d}", the code the parser writes
SeasonEpisode(season, episode) ==
    <<"S">> \o Fmt02d(season) \o <<"E">> \o Fmt02d(episode)

WellFormedCodes ==
    { SeasonEpisode(1, 1), SeasonEpisode(1, 2), SeasonEpisode(1, 3),
      SeasonEpisode(1, 5), SeasonEpisode(2, 1), SeasonEpisode(0, 1) }

\* codes on which the parsing of lines 457-461 raises: a season that is
\* no integer, and a code without 'E'
MalformedCodes == { <<"S", "x", "x", "E", "0", "1">>, <<"S", "0", "1">> }

EpisodeLists ==
    UNION { [1..n -> WellFormedCodes \cup MalformedCodes] : n \in 1..MaxList }

progVars == <<mapVars, lock, callVars, flushVars, tleft, tcancel, mainVars>>

(***************************************************************************)
(* Sizes.  An amount of bytes is a record [mib, cb]: mib * 2^20 bytes plus *)
(* cb hundredths of a byte, cb below 100 * 2^20.  The values of the model  *)
(* have two decimals, so the products and sums the code computes in        *)
(* floating point (all below 2^53) are these amounts.                      *)
(***************************************************************************)
\* the total_size texts of the notifications: texts that format_size
\* writes, a text with an unknown unit, a text whose value is no number,
\* and a text that does not split into a value and a unit
SizeTexts ==
    { <<"1", ".", "5", "0", " ", "G", "B">>,
      <<"5", "0", "0", ".", "0", "0", " ", "M", "B">>,
      <<"1", ".", "0", "0", " ", "G", "B">>,
      <<"7", "6", "8", ".", "0", "0", " ", "M", "B">>,
      <<"5", "1", "2", ".", "0", "0", " ", "K", "B">>,
      <<"1", ".", "0", "0", " ", "T", "B">>,
      <<"1", "2", ".", "0", "0", " ", "X", "B">>,
      <<"a", "b", "c", " ", "M", "B">>,
      <<"N", "/", "A">> }

\* template_vars.get('total_size', ''): a text, or None when the item
\* has no Size (parser line 104)
SizeLists == UNION { [1..n -> SizeTexts \cup {None}] : n \in 1..MaxList }

MiB == 1048576

Amount(mib, cb) == [mib |-> mib + (cb \div (100 * MiB)), cb |-> cb % (100 * MiB)]

Plus(a, b) == Amount(a.mib + b.mib, a.cb + b.cb)

\* float(s), in hundredths, for a text of digits with two decimals
FloatOk(s) ==
    LET parts == SplitOn(s, ".", <<>>)
    IN /\ Len(parts) = 2
       /\ parts[1] /= <<>> /\ \A i \in 1..Len(parts[1]) : IsDigit(parts[1][i])
       /\ Len(parts[2]) = 2 /\ \A i \in 1..2 : IsDigit(parts[2][i])

FloatHundredths(s) ==
    LET parts == SplitOn(s, ".", <<>>)
    IN 100 * DigitsValue(parts[1], 0) + DigitsValue(parts[2], 0)

\* multipliers that take a GB for 1000 MB
UnitAmountDecimalGiga(h, size_unit) ==
    IF size_unit = <<"G", "B">> THEN Amount(10 * h, 0)
    ELSE IF size_unit = <<"M", "B">> THEN Amount(h \div 100, (h % 100) * MiB)
    ELSE IF size_unit = <<"K", "B">> THEN Amount(0, h * 1024)
    ELSE Amount(0, h)

\* lines 335-342: what a value of h hundredths with the unit adds to
\* total_size: value * 1024^3, value * 1024^2, value * 1024, or the bare
\* value for every other unit
UnitAmount(h, size_unit) ==
    IF size_unit = <<"G", "B">> THEN Amount((h * 1024) \div 100, ((h * 1024) % 100) * MiB)
    ELSE IF size_unit = <<"M", "B">> THEN Amount(h \div 100, (h % 100) * MiB)
    ELSE IF size_unit = <<"K", "B">> THEN Amount(0, h * 1024)
    ELSE Amount(0, h)

\* lines 332-343 for one notification: what it adds to total_size;
\* nothing when the unpacking or float() raises
SizeAmount(size_str) ==
    LET parts == SplitOn(size_str, " ", <<>>)
    IN IF Len(parts) = 2 /\ FloatOk(parts[1])
       THEN UnitAmount(FloatHundredths(parts[1]), parts[2])
       ELSE Amount(0, 0)

RECURSIVE TotalSize(_)
\* lines 324-343: the loop over the notifications
TotalSize(sizes) ==
    IF sizes = <<>> THEN Amount(0, 0)
    ELSE Plus(IF Head(sizes) /= None /\ Head(sizes) /= <<>>
              THEN SizeAmount(Head(sizes)) ELSE Amount(0, 0),
              TotalSize(Tail(sizes)))

\* int(total_size): whole bytes, as mib * 2^20 + bytes
IntBytes(a) == [mib |-> a.mib, bytes |-> a.cb \div 100]

size_names == << <<"B">>, <<"K", "B">>, <<"M", "B">>, <<"G", "B">>, <<"T", "B">> >>

\* utils.format_size, the while loop: the index i it stops at
SizeTier(n) ==
    IF n.mib = 0 THEN (IF n.bytes < 1024 THEN 0 ELSE 1)
    ELSE IF n.mib < 1024 THEN 2
    ELSE IF n.mib < MiB THEN 3
    ELSE 4

\* base + num / den rounded to a whole number, half to even
RoundHalfEven(base, num, den) ==
    LET q == base + (num \div den)
        r == num % den
    IN IF r > den - r THEN q + 1
       ELSE IF r = den - r THEN q + (q % 2)
       ELSE q

\* :.2f of n / 1024^i, in hundredths
SizeHundredths(n, i) ==
    IF i = 0 THEN 100 * n.bytes
    ELSE IF i = 1 THEN RoundHalfEven(0, 100 * n.bytes, 1024)
    ELSE IF i = 2 THEN RoundHalfEven(100 * n.mib, 100 * n.bytes, MiB)
    ELSE IF i = 3 THEN RoundHalfEven((100 * n.mib) \div 1024,
                                     ((100 * n.mib) % 1024) * MiB + 100 * n.bytes,
                                     1024 * MiB)
    ELSE LET r == ((100 * n.mib) % MiB) + ((100 * n.bytes) \div MiB)
             e == (100 * n.bytes) % MiB
             q == ((100 * n.mib) \div MiB) + (r \div MiB)
             half == MiB \div 2
         IN IF r % MiB > half \/ (r % MiB = half /\ e > 0) THEN q + 1
            ELSE IF r % MiB = half /\ e = 0 THEN q + (q % 2)
            ELSE q

\* utils.format_size(n) for n = mib * 2^20 + bytes
FormatSize(n) ==
    IF n.mib = 0 /\ n.bytes = 0 THEN <<"0", " ", "B">>
    ELSE LET i == SizeTier(n)
             h == SizeHundredths(n, i)
         IN Dec(h \div 100) \o <<".">> \o Fmt02d(h % 100) \o <<" ">> \o size_names[i + 1]

\* lines 346-347: total_size_str
TotalSizeStr(total_size) ==
    IF total_size.mib > 0 \/ total_size.cb > 0 THEN FormatSize(IntBytes(total_size))
    ELSE None

(***************************************************************************)
(* Message texts.  A text is a sequence of lines and a line a sequence of  *)
(* pieces of text, the first of which names the line; an empty piece is    *)
(* left out, as it adds nothing to the line.                               *)
(***************************************************************************)
MaxBatch == 3

\* the labels extract_quality_from_filename joins with ' ' into
\* resource_quality; a resource_quality is the sequence of its labels
QualityLabels == <<"2160p (4K)", "1080p", "720p", "HDR", "Dolby Vision", "IMAX">>

ResourceQualities ==
    { SelectSeq(QualityLabels, LAMBDA l : l \in S) :
          S \in SUBSET { QualityLabels[i] : i \in 1..Len(QualityLabels) } }

\* the lower-case texts searched for that a label holds
Needles(label) ==
    CASE label = "2160p (4K)" -> {"2160p", "4k"}
      [] label = "1080p" -> {"1080p"}
      [] label = "720p" -> {"720p"}
      [] label = "HDR" -> {"hdr"}
      [] label = "Dolby Vision" -> {"dolby vision"}
      [] label = "IMAX" -> {"imax"}

\* needle in resource_quality.lower()
InQuality(needle, resource_quality) ==
    \E i \in 1..Len(resource_quality) : needle \in Needles(resource_quality[i])

\* lines 374-379: res_label from the video size alone
ResLabel(video_width, video_height) ==
    IF video_width >= 3800 \/ video_height >= 2000 THEN "2160p (4K)"
    ELSE IF video_width >= 1900 \/ video_height >= 1000 THEN "1080p"
    ELSE IF video_width >= 1200 \/ video_height >= 700 THEN "720p"
    ELSE ""

\* templates.py lines 53-59: res_label from the video size, else from
\* the quality text
TemplateResLabel(video_width, video_height, rq) ==
    IF video_width >= 3800 \/ video_height >= 2000 THEN "2160p (4K)"
    ELSE IF video_width >= 1900 \/ video_height >= 1000 THEN "1080p"
    ELSE IF video_width >= 1200 \/ video_height >= 700 THEN "720p"
    ELSE IF InQuality("4k", rq) \/ InQuality("2160p", rq) THEN "2160p (4K)"
    ELSE IF InQuality("1080p", rq) THEN "1080p"
    ELSE IF InQuality("720p", rq) THEN "720p"
    ELSE ""

\* lines 381-389 and templates.py lines 60-63: hdrs
Hdrs(rq) ==
    (IF InQuality("hdr", rq) /\ ~InQuality("dv", rq) THEN <<"HDR10">> ELSE <<>>)
       \o (IF InQuality("dolby vision", rq) \/ InQuality("dv", rq)
           THEN <<"Dolby Vision">> ELSE <<>>)
       \o (IF InQuality("imax", rq) THEN <<"IMAX">> ELSE <<>>)

RECURSIVE JoinBar(_)
\* '|'.join(hdrs), as pieces
JoinBar(hdrs) ==
    IF Len(hdrs) <= 1 THEN hdrs
    ELSE <<Head(hdrs), "|">> \o JoinBar(Tail(hdrs))

\* a piece, left out when it is empty
Piece(text) == IF text = "" THEN <<>> ELSE <<text>>

\* lines 367-397: the quality line of a merged message, if it has one
AggregatedQualityLine(first_vars) ==
    LET res_label == ResLabel(first_vars.video_width, first_vars.video_height)
        hdr_text == JoinBar(Hdrs(first_vars.resource_quality))
        quality_str == IF hdr_text /= <<>>
                       THEN (IF res_label /= "" THEN <<res_label, "|">> \o hdr_text
                             ELSE hdr_text)
                       ELSE Piece(res_label)
    IN IF res_label /= "" \/ hdr_text /= <<>>
       THEN << <<"quality">> \o quality_str >> ELSE <<>>

\* templates.py lines 71-72: the quality line of the text template
TemplateQualityLine(template_vars) ==
    LET res_label == TemplateResLabel(template_vars.video_width, template_vars.video_height,
                                      template_vars.resource_quality)
        hdr_text == JoinBar(Hdrs(template_vars.resource_quality))
    IN IF res_label /= "" \/ hdr_text /= <<>>
       THEN << <<"quality">> \o Piece(res_label)
                  \o (IF hdr_text /= <<>> THEN <<"|">> \o hdr_text ELSE <<>>) >>
       ELSE <<>>

\* a line printed when the value is truthy
LineIf(name, v) == IF Truthy(v) THEN << <<name, Fmt(v)>> >> ELSE <<>>

\* the link list: TMDB, Douban (by id, by IMDb id, or by title), IMDb
Links(tmdb_id, douban_id, imdb_id, title_year) ==
    (IF Truthy(tmdb_id) THEN <<"tmdb:", Fmt(tmdb_id)>> ELSE <<>>)
       \o (IF Truthy(douban_id) THEN <<"douban:", Fmt(douban_id)>>
           ELSE IF Truthy(imdb_id) THEN <<"douban?q=", Fmt(imdb_id)>>
           ELSE IF Truthy(title_year) THEN <<"douban?q=", Fmt(title_year)>>
           ELSE <<>>)
       \o (IF Truthy(imdb_id) THEN <<"imdb:", Fmt(imdb_id)>> ELSE <<>>)

RECURSIVE SizesOf(_)
\* the total_size of each notification
SizesOf(notifications) ==
    IF notifications = <<>> THEN <<>>
    ELSE <<Head(notifications).template_vars.total_size>> \o SizesOf(Tail(notifications))

\* _create_aggregated_message, lines 322-440: the text
AggregatedText(notifications) ==
    LET first_vars == notifications[1].template_vars
        total_files == Len(notifications)
        total_size_str == TotalSizeStr(TotalSize(SizesOf(notifications)))
        links == Links(first_vars.tmdb_id, first_vars.douban_id, first_vars.imdb_id,
                       first_vars.title_year)
    IN << <<"library", "Emby">> >>
          \o LineIf("rating", first_vars.vote_average)
          \o << <<"media type", "series">> >>
          \o LineIf("category", first_vars.category)
          \o AggregatedQualityLine(first_vars)
          \o << <<"files">> \o Dec(total_files) >>
          \o (IF total_size_str /= None THEN << <<"total size">> \o total_size_str >>
              ELSE <<>>)
          \o LineIf("tmdb id", first_vars.tmdb_id)
          \o LineIf("overview", first_vars.overview)
          \o (IF links /= <<>> THEN << <<"links">> \o links >> ELSE <<>>)

\* the title with the title_year of the notification submitted last
AggregatedTitleOfLast(notifications) ==
    [title_year |-> notifications[Len(notifications)].template_vars.title_year,
     shown |-> CreateAggregatedMessage(notifications)]

\* _create_aggregated_message: the title, its year and episode part apart
AggregatedTitle(notifications) ==
    [title_year |-> notifications[1].template_vars.title_year,
     shown |-> CreateAggregatedMessage(notifications)]

\* templates.py lines 64-88: the text template; the episodes of the model
\* have media_type 'tv', so the media type line reads series
TextTemplate(template_vars) ==
    << <<"library", "Emby">> >>
       \o LineIf("rating", template_vars.vote_average)
       \o << <<"media type", "series">> >>
       \o LineIf("category", template_vars.category)
       \o TemplateQualityLine(template_vars)
       \o (IF template_vars.file_count /= 0
           THEN << <<"files">> \o Dec(template_vars.file_count) >> ELSE <<>>)
       \o (IF template_vars.total_size /= None /\ template_vars.total_size /= <<>>
           THEN << <<"size">> \o template_vars.total_size >> ELSE <<>>)
       \o LineIf("tmdb id", template_vars.tmdb_id)
       \o LineIf("overview", template_vars.overview)
       \o << <<"links">> \o Links(template_vars.tmdb_id, template_vars.douban_id,
                                  template_vars.imdb_id, template_vars.title_year) >>

\* TemplateManager.render: (title, text)
RenderMessage(template_vars) ==
    [title |-> [title_year |-> template_vars.title_year, shown |-> Render(template_vars)],
     text |-> TextTemplate(template_vars)]

\* _build_image_url: the cached _tmdb_image_url, else the answer of the
\* TMDB lookup, which is taken to be the same for the same item
BuildImageUrl(template_vars) == template_vars.poster

\* the template variables of two episodes that differ in every attribute
\* a merged message takes from one notification
BaseVars ==
    { [title_year |-> StrId("Show (2020)"), vote_average |-> StrId("8.1"),
       category |-> StrId("Drama"), resource_quality |-> <<"1080p", "HDR">>,
       video_width |-> 1920, video_height |-> 1080, file_count |-> 1,
       tmdb_id |-> StrId("100"), imdb_id |-> StrId("tt100"), douban_id |-> None,
       overview |-> StrId("first overview"), poster |-> StrId("poster-1"),
       media_type |-> "tv", season_episode |-> None, total_size |-> None],
      [title_year |-> StrId("Show"), vote_average |-> None,
       category |-> StrId("Comedy"), resource_quality |-> <<"720p">>,
       video_width |-> 0, video_height |-> 0, file_count |-> 1,
       tmdb_id |-> None, imdb_id |-> None, douban_id |-> StrId("d200"),
       overview |-> StrId("second overview"), poster |-> None,
       media_type |-> "tv", season_episode |-> None, total_size |-> None] }

\* the notifications of a batch: base attributes, an episode code or
\* none, a size text or none
BatchNotifications ==
    { [template_vars |-> [base EXCEPT !.season_episode = code, !.total_size = size]] :
          base \in BaseVars,
          code \in {SeasonEpisode(1, 1), SeasonEpisode(1, 2), None},
          size \in { <<"1", ".", "5", "0", " ", "G", "B">>, <<"N", "/", "A">>, None } }

Batches == UNION { [1..n -> BatchNotifications] : n \in 2..MaxBatch }

\* what the episode path hands to send_message, without the photo
SendEpisodeNotificationWithoutPhoto(template_vars) ==
    [message |-> RenderMessage(template_vars), photo_url |-> None]

\* lines 174-182: what _send_episode_notification hands to send_message
SendEpisodeNotification(template_vars) ==
    [message |-> RenderMessage(template_vars),
     photo_url |-> BuildImageUrl(template_vars)]

\* lines 208-221: what _send_aggregated_notification hands to send_message
\* for a batch that passed the consistency check
SendAggregatedNotification(notifications) ==
    IF Len(notifications) = 1
    THEN LET template_vars == notifications[1].template_vars
         IN [message |-> RenderMessage(template_vars),
             photo_url |-> BuildImageUrl(template_vars)]
    ELSE [message |-> [title |-> AggregatedTitle(notifications),
                       text |-> AggregatedText(notifications)],
          photo_url |-> BuildImageUrl(notifications[1].template_vars)]

\* video sizes at and beside the thresholds, with every resource_quality
\* extract_quality_from_filename can give; a missing Width or Height is 0
\* (parser.py lines 99-100)
VideoWidths == {0, 1199, 1200, 1899, 1900, 3799, 3800}
VideoHeights == {0, 699, 700, 999, 1000, 1999, 2000}
QualityVars ==
    [video_width : VideoWidths, video_height : VideoHeights,
     resource_quality : ResourceQualities]

\* episode codes with numbers of two and of three digits, whose order as
\* texts is not their order as numbers, and a code without 'E'
ArrivalCodes ==
    { SeasonEpisode(1, 2), SeasonEpisode(1, 99), SeasonEpisode(1, 100),
      SeasonEpisode(1, 101), SeasonEpisode(2, 1), <<"S", "0", "1">> }

\* the orders in which n notifications can arrive
Orders(n) == { p \in [1..n -> 1..n] : \A i, j \in 1..n : p[i] = p[j] => i = j }

\* the codes in the order p
Reordered(codes, p) == [i \in 1..Len(codes) |-> codes[p[i]]]

\* the codes of a batch and a second order of arrival
Arrivals ==
    UNION { [codes : [1..n -> ArrivalCodes], order : Orders(n)] : n \in 1..MaxList }

\* the season and episode numbers an item may carry: none (None), 0,
\* numbers of one, two and three digits
IndexNumbers == {None, Num(0), Num(5), Num(12), Num(123)}

\* items of every type with every pair of numbers
Items ==
    [Type : {"Episode", "Movie", "Series"}, SeriesId : {StrId("1")}, SeasonId : {StrId("3")},
     ParentIndexNumber : IndexNumbers, IndexNumber : IndexNumbers]

\* payloads of one item
ItemPayloads == { [Event |-> "library.new", tv |-> << [Item |-> item] >>] : item \in Items }

(***************************************************************************)
(* TelegramClient.send_message.  Title and text are sequences of           *)
(* characters; what goes to Telegram is the method called and its text.    *)
(***************************************************************************)
\* line 89: the longest caption sent as it is
CaptionLimit == 1024

\* line 90: the characters kept of a longer caption
CaptionKept == 1021

\* f"{title}\n\n{text}"
FullMessage(title, text) == title \o <<"\n", "\n">> \o text

\* send_message with the cut after the longest caption
SendMessageCutLate(configured, title, text, photo_url) ==
    IF ~configured THEN [method |-> "none"]
    ELSE IF Truthy(photo_url)
    THEN LET caption == FullMessage(title, text)
         IN [method |-> "sendPhoto", photo |-> photo_url,
             caption |-> IF Len(caption) > CaptionLimit
                         THEN SubSeq(caption, 1, CaptionLimit) \o <<".", ".", ".">>
                         ELSE caption]
    ELSE [method |-> "sendMessage", text |-> FullMessage(title, text)]

\* lines 80-103: nothing without bot_token and chat_id; with a photo_url
\* send_photo with the caption, cut when it is too long; else sendMessage
\* with the full message
SendMessage(configured, title, text, photo_url) ==
    IF ~configured THEN [method |-> "none"]
    ELSE IF Truthy(photo_url)
    THEN LET caption == FullMessage(title, text)
         IN [method |-> "sendPhoto", photo |-> photo_url,
             caption |-> IF Len(caption) > CaptionLimit
                         THEN SubSeq(caption, 1, CaptionKept) \o <<".", ".", ".">>
                         ELSE caption]
    ELSE [method |-> "sendMessage", text |-> FullMessage(title, text)]

\* a text of n characters, no two neighbours alike
TextOf(n) == [i \in 1..n |-> Digits[(i % 10) + 1]]

\* titles and texts whose full message is far below, just below, at, just
\* above and far above the longest caption
TitleLengths == {0, 1, 20}
TextLengths == {0, 100, 1001, 1002, 1003, 1004, 1021, 1022, 1023, 1500}

\* the calls of send_message: with a photo, with none, with an empty
\* photo_url; with and without the configuration
Sendings ==
    [configured : BOOLEAN,
     title : { TextOf(n) : n \in TitleLengths },
     text : { TextOf(n) : n \in TextLengths },
     photo_url : {None, StrId(""), StrId("poster")}]

\* file sizes in bytes, as mib * 2^20 + bytes, in every tier of
\* format_size; a file of size 0 gets no total_size (parser.py line 104)
FileSizes ==
    { [mib |-> mib, bytes |-> bytes] :
          mib \in {0, 1, 700, 1023, 1024, 1536, MiB - 1, MiB, MiB + (MiB \div 2)},
          bytes \in {0, 1, 512, 1023, 1024, 1536, MiB \div 2, MiB - 1} }
       \ { [mib |-> 0, bytes |-> 0] }

InitPure ==
    /\ Idle
    /\ input \in [fn : {"episodes"}, arg : EpisodeLists]
                   \cup [fn : {"sizes"}, arg : SizeLists]
                   \cup [fn : {"merge"}, arg : Batches]
                   \cup [fn : {"file_size"}, arg : FileSizes]
                   \cup [fn : {"single"}, arg : BatchNotifications]
                   \cup [fn : {"quality"}, arg : QualityVars]
                   \cup [fn : {"arrival"}, arg : Arrivals]
                   \cup [fn : {"parse"}, arg : ItemPayloads]
                   \cup [fn : {"send_message"}, arg : Sendings]
    /\ output = NoOutput

\* _merge_episode_ranges(arg), and the episode_str of a batch whose
\* notifications carry the codes arg
ApplyEpisodes ==
    /\ input.fn = "episodes"
    /\ output = NoOutput
    /\ output' = << [ranges |-> MergeEpisodeRanges(input.arg),
                     episode_str |-> EpisodeStr(input.arg)] >>
    /\ UNCHANGED input
    /\ UNCHANGED progVars

\* _create_aggregated_message, lines 324-347, for a batch whose
\* notifications carry the total_size texts arg
ApplySizes ==
    /\ input.fn = "sizes"
    /\ output = NoOutput
    /\ LET total_size == TotalSize(input.arg)
       IN output' = << [total_size |-> total_size,
                        total_size_str |-> TotalSizeStr(total_size)] >>
    /\ UNCHANGED input
    /\ UNCHANGED progVars

\* lines 217-221: the merged message of a batch and its photo
ApplyMerge ==
    /\ input.fn = "merge"
    /\ output = NoOutput
    /\ output' = << [title |-> AggregatedTitle(input.arg),
                     text |-> AggregatedText(input.arg),
                     photo_url |-> BuildImageUrl(input.arg[1].template_vars)] >>
    /\ UNCHANGED input
    /\ UNCHANGED progVars

\* parser.py line 104 and lines 327-343: the size of a file, formatted
\* by parse and read back by the size loop
ApplyFileSize ==
    /\ input.fn = "file_size"
    /\ output = NoOutput
    /\ output' = << [total_size |-> FormatSize(input.arg),
                     bytes |-> TotalSize(<<FormatSize(input.arg)>>)] >>
    /\ UNCHANGED input
    /\ UNCHANGED progVars

\* one notification sent at once for want of a key, and sent by the flush
\* of the batch that holds it alone
ApplySingle ==
    /\ input.fn = "single"
    /\ output = NoOutput
    /\ output' = << [immediate |-> SendEpisodeNotification(input.arg.template_vars),
                     flushed |-> SendAggregatedNotification(<<input.arg>>)] >>
    /\ UNCHANGED input
    /\ UNCHANGED progVars

\* lines 367-397 and templates.py lines 45-68: the quality line of the
\* merged message and of the text template for the same variables
ApplyQuality ==
    /\ input.fn = "quality"
    /\ output = NoOutput
    /\ output' = << [merged |-> AggregatedQualityLine(input.arg),
                     single |-> TemplateQualityLine(input.arg)] >>
    /\ UNCHANGED input
    /\ UNCHANGED progVars

\* lines 300-316: the episode string of a batch whose notifications carry
\* the codes, and of the batch with the same notifications arrived in
\* another order
ApplyArrival ==
    /\ input.fn = "arrival"
    /\ output = NoOutput
    /\ output' = << [episode_str |-> EpisodeStr(input.arg.codes),
                     reordered |-> EpisodeStr(Reordered(input.arg.codes, input.arg.order))] >>
    /\ UNCHANGED input
    /\ UNCHANGED progVars

\* EmbyDataParser.parse on a payload of one item
ApplyParse ==
    /\ input.fn = "parse"
    /\ output = NoOutput
    /\ output' = << Parse(input.arg) >>
    /\ UNCHANGED input
    /\ UNCHANGED progVars

\* TelegramClient.send_message
ApplySendMessage ==
    /\ input.fn = "send_message"
    /\ output = NoOutput
    /\ output' = << SendMessage(input.arg.configured, input.arg.title, input.arg.text,
                                input.arg.photo_url) >>
    /\ UNCHANGED input
    /\ UNCHANGED progVars

NextPure ==
    \/ ApplyEpisodes
    \/ ApplySizes
    \/ ApplyMerge
    \/ ApplyFileSize
    \/ ApplySingle
    \/ ApplyQuality
    \/ ApplyArrival
    \/ ApplyParse
    \/ ApplySendMessage

SpecPure == InitPure /\ [][NextPure]_vars

(***************************************************************************)
(* What the properties read.  A call is classified by the payload it was   *)
(* given, and an episode by the code its item's numbers spell.             *)
(***************************************************************************)
Returned(c) == cpc[c] = "done"

MovieCall(c) == "mv" \in DOMAIN cdata[c]

EpisodeCall(c) == "tv" \in DOMAIN cdata[c] /\ cdata[c].tv /= <<>>

NoItemCall(c) == "tv" \in DOMAIN cdata[c] /\ cdata[c].tv = <<>>

\* the (SeriesId, SeasonId) of an episode call
PairOf(c) == <<cdata[c].tv[1].Item.SeriesId, cdata[c].tv[1].Item.SeasonId>>

\* an identifier that is neither absent nor empty
Present(v) == v /= None /\ v /= StrId("")

KeyedCall(c) == EpisodeCall(c) /\ Present(PairOf(c)[1]) /\ Present(PairOf(c)[2])

UnkeyedCall(c) == EpisodeCall(c) /\ ~(Present(PairOf(c)[1]) /\ Present(PairOf(c)[2]))

\* the episode code of the c-th call's item: season 1, episode c
CodeOf(c) == <<"S", "0", "1", "E", "0", Digits[c + 1]>>

\* the single rendering of the c-th call's episode
SingleOf(c) == [kind |-> "single", episode_str |-> <<CodeOf(c)>>, count |-> 1]

\* the calls a sequence of send_message calls was rendered from
Covered(sent) == {c \in Calls : \E i \in 1..Len(sent) : \E j \in 1..Len(sent[i].notifs) :
                                    sent[i].notifs[j] = c}

\* the c-th call's notification is in a pending batch
InBatch(c) ==
    \E k \in DOMAIN pending_notifications :
        \E i \in 1..Len(pending_notifications[k]) : pending_notifications[k][i].id = c

\* the c-th call started its timer
TimerStarted(c) == fpc[c] /= "new"

\* the c-th call's notification went into some batch: it is pending, popped
\* or sent by a flusher
Batched(c) ==
    \/ InBatch(c)
    \/ \E th \in Flushers : \/ \E i \in 1..Len(fbatch[th]) : fbatch[th][i].id = c
                            \/ c \in Covered(fsent[th])

\* an episode token of a title names the code: the code itself, or a range
\* of its season that spans its episode number
TokenCovers(token, code) ==
    LET parts == SplitOn(token, "-", <<>>)
        first == ParseEpisode(parts[1])
        want == ParseEpisode(code)
    IN IF Len(parts) = 1 THEN token = code
       ELSE /\ first[1] = want[1]
            /\ first[2] <= want[2]
            /\ want[2] <= IntValue(Tail(parts[2]))

\* the message shows the episode code of the c-th call
Shows(msg, c) ==
    \E i \in 1..Len(msg.episode_str) : TokenCovers(msg.episode_str[i], CodeOf(c))

(***************************************************************************)
(* Keying and batching                                                     *)
(***************************************************************************)
\* C1: of two episode submissions that one flush removed together, those
\* with equal (SeriesId, SeasonId) are delivered by one message that shows
\* both episode codes, and those with different pairs by two messages,
\* neither showing the other's code.
C1_SamePairOneMessage ==
    \A th \in Flushers : \A a, b \in Covered(fsent[th]) :
        a /= b =>
            IF PairOf(a) = PairOf(b)
            THEN \E i \in 1..Len(fsent[th]) :
                    /\ {a, b} \subseteq Covered(<<fsent[th][i]>>)
                    /\ Shows(fsent[th][i].msg, a)
                    /\ Shows(fsent[th][i].msg, b)
            ELSE \A i \in 1..Len(fsent[th]) :
                    /\ ~({a, b} \subseteq Covered(<<fsent[th][i]>>))
                    /\ a \in Covered(<<fsent[th][i]>>) => ~Shows(fsent[th][i].msg, b)

(***************************************************************************)
(* Debounce                                                                *)
(***************************************************************************)
\* C2: a submission made less than Delay after the key's previous one is
\* delivered by the same flush as that one, and a timer's flush of a batch
\* whose submissions each followed the previous by less than Delay delivers
\* no earlier than Delay after the last of them.
C2_FlushAfterLastSubmission ==
    \A t \in Calls :
        /\ \A i \in 1..Len(fages[t]) :
              fages[t][i].prev /= NoCall =>
                  \E j \in 1..Len(fages[t]) : fages[t][j].id = fages[t][i].prev
        /\ (\A i \in 2..Len(fages[t]) : fages[t][i].prev = fages[t][i - 1].id)
              => \A i \in 1..Len(fages[t]) : fages[t][i].age >= Delay

(***************************************************************************)
(* flush_all                                                               *)
(***************************************************************************)
\* C3: once flush_all has returned no batch is pending, the timers map is
\* empty, and every timer that was scheduled when flush_all started has
\* been cancelled.
C3_DrainPostcondition ==
    mpc = "returned" =>
        /\ DOMAIN pending_notifications = {}
        /\ DOMAIN timers = {}
        /\ \A t \in mlive : tcancel[t]

\* C4: flush_all terminates: while it runs, the main thread always has its
\* next step to take (no other thread can release the lock it holds).
C4_FlushAllProceeds ==
    mpc \in {"loop", "in_flush"} =>
        ENABLED (FlushAllLoop \/ FlushCritical(Main) \/ FlushSend(Main))

(***************************************************************************)
(* The consistency check                                                   *)
(***************************************************************************)
\* C5: every merged message was built from notifications that all carry
\* the SeriesId and the SeasonId of the first one.
C5_MergedFromOnePair ==
    \A th \in Flushers : \A i \in 1..Len(fsent[th]) :
        fsent[th][i].msg.kind = "merged" =>
            \A j \in 1..Len(fsent[th][i].notifs) :
                PairOf(fsent[th][i].notifs[j]) = PairOf(fsent[th][i].notifs[1])

\* a merged message was sent for a key that two different pairs print to,
\* after all the calls were made
C5_Witness ==
    \E th \in Flushers :
        /\ fkey[th] = "1_2_3"
        /\ Len(fsent[th]) = 1
        /\ fsent[th][1].msg.kind = "merged"
        /\ Len(fsent[th][1].notifs) >= 2
        /\ \A c \in Calls : Returned(c) /\ KeyedCall(c)

\* C6: two notifications are in the same pending batch if and only if
\* their (SeriesId, SeasonId) pairs are equal.
C6_SameBatchIffSamePair ==
    \A k1, k2 \in DOMAIN pending_notifications :
        \A i \in 1..Len(pending_notifications[k1]), j \in 1..Len(pending_notifications[k2]) :
            (k1 = k2) <=> (PairOf(pending_notifications[k1][i].id)
                              = PairOf(pending_notifications[k2][j].id))

(***************************************************************************)
(* add_notification: the immediate paths and the return value              *)
(***************************************************************************)
\* the c-th call sent its item at once, once, as a single message, and
\* returned the sender's answer; nothing of it was batched or timed
SentAtOnce(c) ==
    /\ Len(csent[c]) = 1
    /\ csent[c][1].notifs = <<c>>
    /\ csent[c][1].msg.kind = "single"
    /\ cret[c] = (IF csent[c][1].ok THEN "True" ELSE "False")
    /\ ~Batched(c)
    /\ ~TimerStarted(c)

\* the step in which the c-th call returns
Returns(c) == cpc[c] /= "done" /\ cpc'[c] = "done"

\* the step changes no batch and no timer
NoBatchStep == UNCHANGED <<pending_notifications, key_order, timers, fpc, tleft, tcancel>>

C7_State == \A c \in Calls : Returned(c) /\ MovieCall(c) => SentAtOnce(c)

C7_Step == \A c \in Calls : Returns(c) /\ MovieCall(c)' => NoBatchStep

\* C7: a movie submission is sent exactly once before add_notification
\* returns, which returns the sender's answer; no movie is ever in a
\* pending batch, and the call starts no timer and changes neither
\* pending_notifications nor timers.
C7_MovieBypass == [](C7_State) /\ [][C7_Step]_vars

\* movies were sent, one delivered and one not, while a batch was pending
C7_Witness ==
    \E a, b \in Calls :
        /\ Returned(a) /\ MovieCall(a) /\ cret[a] = "True"
        /\ Returned(b) /\ MovieCall(b) /\ cret[b] = "False"
        /\ DOMAIN pending_notifications /= {}

C8_State ==
    \A c \in Calls : Returned(c) /\ UnkeyedCall(c) =>
        SentAtOnce(c) /\ csent[c][1].msg = SingleOf(c)

C8_Step == \A c \in Calls : Returns(c) /\ UnkeyedCall(c)' => NoBatchStep

\* C8: an episode submission without SeriesId or without SeasonId (absent
\* or empty) is sent at once as a single notification, is never in a batch,
\* starts no timer, and add_notification returns the result of that send.
C8_MissingKeyFallback == [](C8_State) /\ [][C8_Step]_vars

\* an episode without SeriesId was sent and delivered, one with an empty
\* SeasonId was sent and not delivered
C8_Witness ==
    \E a, b \in Calls :
        /\ Returned(a) /\ UnkeyedCall(a) /\ PairOf(a)[1] = None /\ cret[a] = "True"
        /\ Returned(b) /\ UnkeyedCall(b) /\ PairOf(b)[2] = StrId("") /\ cret[b] = "False"

C9_State ==
    \A c \in Calls : Returned(c) /\ KeyedCall(c) =>
        /\ cret[c] = "True"
        /\ csent[c] = <<>>
        /\ Batched(c)
        /\ TimerStarted(c)

C9_Step ==
    \A c \in Calls : Returns(c) /\ KeyedCall(c)' =>
        \E k \in DOMAIN pending_notifications' :
            /\ pending_notifications'[k] =
                  Append(IF k \in DOMAIN pending_notifications
                         THEN pending_notifications[k] ELSE <<>>,
                         pending_notifications'[k][Len(pending_notifications'[k])])
            /\ pending_notifications'[k][Len(pending_notifications'[k])].id = c
            /\ timers'[k] = c
            /\ Scheduled(c)'
            /\ tleft'[c] = Delay

\* C9: an episode submission with SeriesId and SeasonId returns True
\* without a send for it; it is appended to the batch of its key and a
\* timer of Delay is scheduled for the key; what the later flush delivers
\* does not change the value returned.
C9_KeyedReturnsTrue == [](C9_State) /\ [][C9_Step]_vars

\* a keyed episode returned True and the flush that sent it was not
\* delivered
C9_Witness ==
    \E c \in Calls, th \in Flushers :
        /\ Returned(c) /\ KeyedCall(c) /\ cret[c] = "True"
        /\ \E i \in 1..Len(fsent[th]) :
              c \in Covered(<<fsent[th][i]>>) /\ ~fsent[th][i].ok

\* the c-th call returned False after one immediate send that failed
FailedImmediate(c) ==
    /\ MovieCall(c) \/ UnkeyedCall(c)
    /\ Len(csent[c]) = 1
    /\ ~csent[c][1].ok

\* the c-th call left nothing in pending_notifications or timers
LeftNothing(c) ==
    /\ ~Batched(c)
    /\ ~TimerStarted(c)
    /\ \A k \in DOMAIN timers : timers[k] /= c

SentBatch(th) == [i \in 1..Len(fages[th]) |-> fages[th][i].id]

\* some entry of the batch differs from the first in SeriesId or SeasonId
Mixed(ids) == \E i \in 2..Len(ids) : PairOf(ids[i]) /= PairOf(ids[1])

\* C11: a flush of k >= 2 notifications of which one differs from the
\* first in SeriesId or SeasonId sends exactly k messages, the single
\* rendering of each entry in batch order, and no merged message.
C11_FallbackSendsSingles ==
    \A th \in Flushers :
        Len(SentBatch(th)) >= 2 /\ Mixed(SentBatch(th)) =>
            /\ Len(fsent[th]) = Len(SentBatch(th))
            /\ \A i \in 1..Len(fsent[th]) :
                  /\ fsent[th][i].msg = SingleOf(SentBatch(th)[i])
                  /\ fsent[th][i].notifs = <<SentBatch(th)[i]>>

\* a batch of three was flushed whose second entry alone differs from the
\* first
C11_Witness ==
    \E th \in Flushers :
        /\ Len(SentBatch(th)) = 3
        /\ PairOf(SentBatch(th)[2]) /= PairOf(SentBatch(th)[1])
        /\ PairOf(SentBatch(th)[3]) = PairOf(SentBatch(th)[1])
        /\ Len(fsent[th]) = 3

\* every aggregation key a call may form
AllKeys == {AggregationKey(p[1], p[2]) : p \in KeyedPairs}

\* the calls whose notifications are pending under key k, in list order
PendingIds(k) ==
    IF k \in DOMAIN pending_notifications THEN Ids(pending_notifications[k]) ELSE <<>>

\* the step in which handler c appends under key k
AppendStep(c, k) == cpc[c] = "wait_lock" /\ cpc'[c] = "done" /\ ckey[c] = k

\* the step in which flusher th takes the batch of key k
TakeStep(th, k) == fpc[th] = "enter" /\ fpc'[th] = "send" /\ fkey[th] = k

RECURSIVE Flatten(_)
\* the calls a sequence of send_message calls was rendered from, in order
Flatten(sent) == IF sent = <<>> THEN <<>> ELSE Head(sent).notifs \o Flatten(Tail(sent))

\* a step changes the list of a key only by appending the notification of
\* the handler that holds the lock, or by a flush taking the whole list as
\* it is and removing the key
C12_MapStep ==
    \A k \in AllKeys :
        \/ PendingIds(k)' = PendingIds(k)
        \/ \E c \in Calls : AppendStep(c, k) /\ PendingIds(k)' = Append(PendingIds(k), c)
        \/ \E th \in Flushers :
              /\ TakeStep(th, k)
              /\ k \notin DOMAIN pending_notifications'
              /\ Ids(fbatch'[th]) = PendingIds(k)

\* the list a flusher took changes only when it is sent, and it is rendered
\* in its order
C12_FlushStep ==
    \A th \in Flushers :
        \/ Ids(fbatch'[th]) = Ids(fbatch[th])
        \/ \E k \in AllKeys : TakeStep(th, k)
        \/ /\ fpc[th] = "send" /\ fpc'[th] = "done"
           /\ fbatch'[th] = <<>>
           /\ Flatten(fsent'[th]) = Ids(fbatch[th])

\* C12: what a flush hands to rendering is exactly the notifications
\* appended under its key since the key's previous flush, in the order of
\* their appends, none moved, repeated or left out.
C12_AppendOrderKept == [][C12_MapStep /\ C12_FlushStep]_vars

\* a key was flushed twice: the first flush took the first submission, the
\* second the two appended after it, in their order
C12_Witness ==
    \E t1, t2 \in Calls :
        /\ t1 /= t2 /\ fkey[t1] = fkey[t2]
        /\ SentBatch(t1) = <<1>>
        /\ SentBatch(t2) = <<2, 3>>
        /\ Flatten(fsent[t2]) = <<2, 3>>

\* the step in which flusher th sends what it took and returns
SendStep(th) == fpc[th] = "send" /\ fpc'[th] = "done"

\* some message of flusher th was not delivered
FailedFlush(th) == \E i \in 1..Len(fsent[th]) : ~fsent[th][i].ok

\* the number of send_message calls made for the c-th call's notification
Attempts(c) ==
    Cardinality({<<th, i>> \in Flushers \X (1..MaxCalls) :
                    i <= Len(fsent[th]) /\ c \in Covered(<<fsent[th][i]>>)})
    + Len(csent[c])

\* a flush that was not delivered has returned; what it took is in no
\* pending batch and with no other flusher, and was handed to the sender
\* once
C13_State ==
    \A th \in Flushers : FailedFlush(th) =>
        /\ fpc[th] = "done"
        /\ \A c \in Covered(fsent[th]) :
              /\ ~InBatch(c)
              /\ \A o \in Flushers : \A i \in 1..Len(fbatch[o]) : fbatch[o][i].id /= c
              /\ Attempts(c) = 1

\* taking a batch removes its key from both maps; the send, delivered or
\* not, ends the flush and changes neither map, no timer and no handler
C13_Step ==
    \A th \in Flushers :
        /\ (\E k \in AllKeys : TakeStep(th, k)) =>
              /\ fkey[th] \notin DOMAIN pending_notifications'
              /\ fkey[th] \notin DOMAIN timers'
        /\ SendStep(th) =>
              UNCHANGED <<pending_notifications, key_order, timers, tcancel, tleft,
                          lock, callVars>>

\* a handler that waits for the lock can take it whenever flush_all is not
\* running, whatever the flushes before delivered
C13_NotBlocked ==
    \A c \in Calls : cpc[c] = "wait_lock" /\ mpc = "idle" => ENABLED AddCritical(c)

\* C13: a flush returns to its caller whether or not its send was
\* delivered; a batch that was not delivered is gone from
\* pending_notifications and timers, is not put back and not sent again,
\* and later submissions to any key are accepted into fresh batches.
C13_FailedFlushIsFinal == [](C13_State /\ C13_NotBlocked) /\ [][C13_Step]_vars

\* a flush was not delivered, and afterwards a submission to the same key
\* and one to another key each started a fresh batch
C13_Witness ==
    \E th \in Flushers, a, b \in Calls :
        /\ FailedFlush(th) /\ fpc[th] = "done"
        /\ a /= b /\ a > th /\ b > th
        /\ ckey[a] = fkey[th] /\ ckey[b] /= fkey[th]
        /\ PendingIds(ckey[a]) = <<a>>
        /\ PendingIds(ckey[b]) = <<b>>
        /\ cret[a] = "True" /\ cret[b] = "True"

(***************************************************************************)
(* The episode ranges of a merged title                                    *)
(***************************************************************************)
\* the number that the two characters of s from position i show
TwoDigits(s, i) == 10 * DigitVal(s[i]) + DigitVal(s[i + 1])

\* s reads SssEee
IsCode(s) ==
    /\ Len(s) = 6
    /\ s[1] = "S" /\ s[4] = "E"
    /\ \A i \in {2, 3, 5, 6} : IsDigit(s[i])

\* s reads SssEee or SssEee-Eee, the second with a later last episode
IsRangeToken(s) ==
    \/ IsCode(s)
    \/ /\ Len(s) = 10
       /\ IsCode(SubSeq(s, 1, 6))
       /\ s[7] = "-" /\ s[8] = "E" /\ IsDigit(s[9]) /\ IsDigit(s[10])
       /\ TwoDigits(s, 5) < TwoDigits(s, 9)

RangeSeason(s) == TwoDigits(s, 2)
RangeFirst(s) == TwoDigits(s, 5)
RangeLast(s) == IF Len(s) = 6 THEN TwoDigits(s, 5) ELSE TwoDigits(s, 9)

RECURSIVE RangeEpisodes(_)
\* the (season, episode) pairs that a list of range tokens stands for
RangeEpisodes(tokens) ==
    IF tokens = <<>> THEN <<>>
    ELSE LET t == Head(tokens)
             n == RangeLast(t) - RangeFirst(t) + 1
         IN [i \in 1..n |-> <<RangeSeason(t), RangeFirst(t) + i - 1>>]
               \o RangeEpisodes(Tail(tokens))

CodePairs(codes) ==
    [i \in 1..Len(codes) |-> <<RangeSeason(codes[i]), RangeFirst(codes[i])>>]

Occurrences(x, s) == Cardinality({i \in 1..Len(s) : s[i] = x})

\* s holds the elements of t in ascending (season, episode) order
SortedPairsOf(s, t) ==
    /\ Len(s) = Len(t)
    /\ \A i \in 1..Len(t) : Occurrences(t[i], s) = Occurrences(t[i], t)
    /\ \A i \in 1..(Len(s) - 1) :
          \/ s[i][1] < s[i + 1][1]
          \/ s[i][1] = s[i + 1][1] /\ s[i][2] <= s[i + 1][2]

AllWellFormed(codes) == \A i \in 1..Len(codes) : IsCode(codes[i])

EpisodesApplied == input.fn = "episodes" /\ output /= NoOutput

\* C14: for a list of well-formed codes, _merge_episode_ranges returns the
\* maximal runs of the sorted list: the tokens read SssEee or SssEee-Eee,
\* they stand for exactly the sorted episodes, every episode inside a token
\* is one more than the one before it, and no token continues the token
\* before it (same season, next episode number); the episode string of
\* a single code is that code.
C14_MaximalRuns ==
    EpisodesApplied /\ AllWellFormed(input.arg) =>
        LET tokens == output[1].ranges IN
        /\ \A i \in 1..Len(tokens) : IsRangeToken(tokens[i])
        /\ SortedPairsOf(RangeEpisodes(tokens), CodePairs(input.arg))
        /\ \A i \in 1..(Len(tokens) - 1) :
              ~(/\ RangeSeason(tokens[i + 1]) = RangeSeason(tokens[i])
                /\ RangeFirst(tokens[i + 1]) = RangeLast(tokens[i]) + 1)
        /\ Len(input.arg) = 1 => output[1].episode_str = input.arg
        /\ Len(input.arg) > 1 => output[1].episode_str = tokens

C14_Witness ==
    /\ EpisodesApplied
    /\ input.arg = << SeasonEpisode(1, 1), SeasonEpisode(1, 2),
                      SeasonEpisode(1, 3), SeasonEpisode(1, 5) >>
    /\ output[1].ranges =
          << <<"S", "0", "1", "E", "0", "1", "-", "E", "0", "3">>,
             <<"S", "0", "1", "E", "0", "5">> >>

\* the list holds a code that does not parse, together with codes that do
MixedCodes(codes) ==
    /\ \E i \in 1..Len(codes) : ~IsCode(codes[i])
    /\ \E i \in 1..Len(codes) : IsCode(codes[i])

ValidCodes(codes) == SelectSeq(codes, IsCode)

\* C15: for a list that holds a malformed code together with valid codes,
\* the episode string has every malformed code as a token of its own, as
\* often as the list holds it, and the remaining tokens are the runs of the
\* valid codes alone: no malformed code is joined into a run.
C15_MalformedKeptAlone ==
    EpisodesApplied /\ MixedCodes(input.arg) =>
        LET tokens == output[1].episode_str IN
        /\ \A i \in 1..Len(input.arg) :
              ~IsCode(input.arg[i]) =>
                  Occurrences(input.arg[i], tokens) = Occurrences(input.arg[i], input.arg)
        /\ SortedPairsOf(RangeEpisodes(SelectSeq(tokens, IsRangeToken)),
                         CodePairs(ValidCodes(input.arg)))

(***************************************************************************)
(* The total size of a merged message                                      *)
(***************************************************************************)
SizesApplied == input.fn = "sizes" /\ output /= NoOutput

\* the two sizes of the example
StatedSizes == << <<"1", ".", "5", "0", " ", "G", "B">>, <<"5", "0", "0", ".", "0", "0", " ", "M", "B">> >>

\* what the size texts with the units GB, MB and KB stand for, as
\* [MiB, hundredths of a byte]
AmountOf(text) ==
    CASE text = <<"1", ".", "5", "0", " ", "G", "B">> -> [mib |-> 1536, cb |-> 0]
      [] text = <<"5", "0", "0", ".", "0", "0", " ", "M", "B">> -> [mib |-> 500, cb |-> 0]
      [] text = <<"1", ".", "0", "0", " ", "G", "B">> -> [mib |-> 1024, cb |-> 0]
      [] text = <<"7", "6", "8", ".", "0", "0", " ", "M", "B">> -> [mib |-> 768, cb |-> 0]
      [] text = <<"5", "1", "2", ".", "0", "0", " ", "K", "B">> -> [mib |-> 0, cb |-> 52428800]

PlainSizes(sizes) ==
    \A i \in 1..Len(sizes) :
        sizes[i] \in { <<"1", ".", "5", "0", " ", "G", "B">>, <<"5", "0", "0", ".", "0", "0", " ", "M", "B">>, <<"1", ".", "0", "0", " ", "G", "B">>, <<"7", "6", "8", ".", "0", "0", " ", "M", "B">>, <<"5", "1", "2", ".", "0", "0", " ", "K", "B">> }

RECURSIVE SumAmounts(_)
SumAmounts(sizes) ==
    IF sizes = <<>> THEN [mib |-> 0, cb |-> 0]
    ELSE LET a == AmountOf(Head(sizes))
             b == SumAmounts(Tail(sizes))
             cb == a.cb + b.cb
         IN [mib |-> a.mib + b.mib + (cb \div 104857600), cb |-> cb % 104857600]

\* the least amount of tier i: 1 byte, 1 KB, 1 MB, 1 GB, 1 TB
TierFloor(i) ==
    CASE i = 1 -> [mib |-> 0, cb |-> 0]
      [] i = 2 -> [mib |-> 0, cb |-> 102400]
      [] i = 3 -> [mib |-> 1, cb |-> 0]
      [] i = 4 -> [mib |-> 1024, cb |-> 0]
      [] i = 5 -> [mib |-> 1048576, cb |-> 0]

AtLeast(a, b) == a.mib > b.mib \/ (a.mib = b.mib /\ a.cb >= b.cb)

\* the text shows a value and the unit of the tier the amount lies in
TierMatches(text, amount) ==
    LET parts == SplitOn(text, " ", <<>>)
        i == CHOOSE k \in 1..Len(size_names) : size_names[k] = parts[2]
    IN /\ Len(parts) = 2 /\ FloatOk(parts[1])
       /\ \E k \in 1..Len(size_names) : size_names[k] = parts[2]
       /\ AtLeast(amount, TierFloor(i))
       /\ i < Len(size_names) => ~AtLeast(amount, TierFloor(i + 1))

\* the stated sum: 1500.00*1024*1024 + 500*1024*1024 bytes is 2000 MiB
C16_SumAsStated ==
    SizesApplied /\ input.arg = StatedSizes =>
        /\ output[1].total_size = [mib |-> 1500 + 500, cb |-> 0]
        /\ TierMatches(output[1].total_size_str, output[1].total_size)

\* C16: the sizes of a batch are summed with 1 GB = 1024 MB = 1024*1024 KB:
\* the batch of "1.50 GB" and "500.00 MB" sums to 1.5*1024*1024*1024 +
\* 500*1024*1024 = 2134900736 bytes (2036 MiB) and is shown as "1.99 GB";
\* every batch of sizes in GB, MB and KB sums to what its size texts stand
\* for and is shown in the tier that matches the total.
C16_SizesSummed ==
    SizesApplied /\ PlainSizes(input.arg) =>
        /\ output[1].total_size = SumAmounts(input.arg)
        /\ TierMatches(output[1].total_size_str, output[1].total_size)
        /\ input.arg = StatedSizes =>
              /\ output[1].total_size = [mib |-> 2036, cb |-> 0]
              /\ output[1].total_size_str = <<"1", ".", "9", "9", " ", "G", "B">>

C16_Witness ==
    /\ SizesApplied
    /\ input.arg = StatedSizes
    /\ output[1].total_size_str = <<"1", ".", "9", "9", " ", "G", "B">>

(***************************************************************************)
(* The event filter of the webhook                                         *)
(***************************************************************************)
\* the call has been made
Called(c) == cpc[c] /= "idle"

\* the payload's event type is not 'library.new'
Filtered(c) ==
    cdata[c] \in OtherEventPayloads(c) \cup NoEventPayloads(c) \cup {EmptyDict}

\* c's item is in some message sent
Sent(c) ==
    \/ csent[c] /= <<>>
    \/ \E th \in Flushers : c \in Covered(fsent[th])

C17_State ==
    \A c \in Calls :
        Called(c) /\ Filtered(c) =>
            /\ Returned(c)
            /\ cret[c] \in {"ignored", "400"}
            /\ ~Sent(c)
            /\ ~Batched(c)
            /\ ~TimerStarted(c)

C17_Step ==
    \A c \in Calls :
        ~Called(c) /\ Called(c)' /\ Filtered(c)' =>
            UNCHANGED <<pending_notifications, key_order, timers, csent, fsent,
                        fbatch, fpc, tleft, tcancel>>

\* C17: a payload whose event type is not 'library.new' - another event, an
\* event at the top that hides 'library.new' in the entry, no event type at
\* all, an empty payload - is answered without a call of add_notification:
\* the step changes neither pending_notifications nor timers and sends
\* nothing, and the payload's item is never sent, batched or given a timer.
C17_OnlyNewItemsReachAggregator == [](C17_State) /\ [][C17_Step]_vars

C17_Witness ==
    /\ InBatch(1)
    /\ Scheduled(1)
    /\ cdata[2] \in NoEventPayloads(2) /\ cret[2] = "ignored"
    /\ cdata[3] \in OtherEventPayloads(3) /\ cret[3] = "ignored"
    /\ "Event" \notin DOMAIN cdata[1]

(***************************************************************************)
(* The lock and the network calls                                          *)
(***************************************************************************)
\* flusher th is past its with block and has not yet returned: it renders
\* and sends
Sending(th) == fpc[th] = "send"

C18_State == \A th \in Flushers : Sending(th) => lock /= FlushThread(th)

\* a step that sends is none of the blocks under the lock: it leaves the
\* maps and the lock as they are
C18_Step ==
    (csent' /= csent \/ fsent' /= fsent) =>
        /\ UNCHANGED <<pending_notifications, key_order, timers, lock>>
        /\ \A th \in Flushers : fsent'[th] /= fsent[th] => lock /= FlushThread(th)

\* C18: a thread that renders or sends does not hold self.lock: a flusher
\* past its with block (timer thread or flush_all) is not the holder, and
\* every step that sends - the immediate send of add_notification, the
\* send of a flush - changes neither the maps nor the lock.
C18_NoLockAcrossSend == [](C18_State) /\ [][C18_Step]_vars

\* a timer thread sends while flush_all holds the lock
C18_Witness ==
    /\ lock = FlushThread(Main)
    /\ \E t \in Calls : Sending(t) /\ fbatch[t] /= <<>>

(***************************************************************************)
(* The timers of a key                                                     *)
(***************************************************************************)
\* timer t has been started, cancel() was not called on it, and its
\* callback has not finished
Active(t) == fpc[t] \in {"waiting", "enter", "send"} /\ ~tcancel[t]

\* C19: for every key, at most one timer that was started and is neither
\* cancelled nor finished with its callback targets the key.
C19_OneActiveTimerPerKey ==
    \A t1, t2 \in Calls :
        Active(t1) /\ Active(t2) /\ fkey[t1] = fkey[t2] => t1 = t2

(***************************************************************************)
(* Every notification is taken once                                        *)
(***************************************************************************)
\* the call appended its notification to a batch
Accepted(c) == KeyedCall(c) /\ Returned(c)

\* the places of c's notification in the pending batches
PendingPlaces(c) ==
    UNION { { <<k, i>> : i \in { j \in 1..Len(pending_notifications[k]) :
                                    pending_notifications[k][j].id = c } } :
            k \in DOMAIN pending_notifications }

\* the places of c's notification in the lists the flushes took: a list
\* popped and not yet sent, or sent
TakenPlaces(c) ==
    UNION { { <<th, i>> : i \in { j \in 1..Len(fbatch[th]) : fbatch[th][j].id = c } }
               \cup { <<th, i>> : i \in { j \in 1..Len(fages[th]) : fages[th][j].id = c } } :
            th \in Flushers }

Flushed(c) == \E th \in Flushers : c \in Covered(fsent[th])

C22_State ==
    lock = Free =>
        /\ DOMAIN pending_notifications = DOMAIN timers
        /\ \A k \in DOMAIN pending_notifications : pending_notifications[k] /= <<>>

\* a step gives a key a batch exactly if it gives it a timer entry, and
\* takes the batch away exactly if it takes the entry away
C22_Step ==
    /\ DOMAIN pending_notifications' \ DOMAIN pending_notifications
           = DOMAIN timers' \ DOMAIN timers
    /\ DOMAIN pending_notifications \ DOMAIN pending_notifications'
           = DOMAIN timers \ DOMAIN timers'

\* C22: whenever the lock is not held, pending_notifications and timers
\* have the same keys and every pending list is non-empty; a batch and its
\* timer entry are created in one step and removed in one step.
C22_MapsAgree == [](C22_State) /\ [][C22_Step]_vars

\* the callback of the cancelled timer 1 has removed the batch and the
\* entry of the key, which was timer 2's; timer 2 is still scheduled
C22_Witness ==
    /\ lock = Free
    /\ tcancel[1] /\ fpc[1] \in {"send", "done"}
    /\ Scheduled(2) /\ fkey[2] = fkey[1]
    /\ fkey[1] \notin DOMAIN timers
    /\ \E k \in DOMAIN pending_notifications : k /= fkey[1]

(***************************************************************************)
(* A flush that finds its key gone                                         *)
(***************************************************************************)
\* flusher th leaves its with block in this step, and its key has no batch
FindsKeyGone(th) ==
    /\ fpc[th] = "enter" /\ fpc'[th] /= "enter"
    /\ fkey[th] \notin DOMAIN pending_notifications

C23_Step ==
    \A th \in Flushers :
        FindsKeyGone(th) =>
            /\ fpc'[th] = "done"
            /\ UNCHANGED <<pending_notifications, key_order, timers, csent, fsent,
                           fbatch, fages>>

\* a flusher that returned without a batch has sent nothing
C23_State ==
    \A th \in Flushers : fpc[th] = "done" /\ fages[th] = <<>> => fsent[th] = <<>>

\* C23: a flush for a key that is no longer in pending_notifications
\* returns at once: the step sends nothing and leaves both maps, with the
\* entries of all other keys, as they are, and the flusher never sends.
C23_FlushOfGoneKeyIsNoOp == [](C23_State) /\ [][C23_Step]_vars

\* timer 2 fired, uncancelled, after the stale callback of timer 1 had taken
\* the key's batch; another key has a batch pending
C23_Witness ==
    /\ ~tcancel[2] /\ fpc[2] = "done" /\ fsent[2] = <<>>
    /\ fkey[2] = fkey[1] /\ SentBatch(1) = <<1, 2>>
    /\ pending_notifications /= <<>>
    /\ fkey[2] \notin DOMAIN pending_notifications

(***************************************************************************)
(* Keys do not interfere                                                   *)
(***************************************************************************)
\* the step leaves the batch, the timer entry and the timers of every key
\* other than key as they are
OthersUntouched(key) ==
    /\ \A k \in (DOMAIN pending_notifications \cup DOMAIN pending_notifications') \ {key} :
          /\ k \in DOMAIN pending_notifications /\ k \in DOMAIN pending_notifications'
          /\ pending_notifications'[k] = pending_notifications[k]
    /\ \A k \in (DOMAIN timers \cup DOMAIN timers') \ {key} :
          /\ k \in DOMAIN timers /\ k \in DOMAIN timers'
          /\ timers'[k] = timers[k]
    /\ \A t \in Calls :
          fpc[t] /= "new" /\ fkey[t] /= key =>
              /\ tcancel'[t] = tcancel[t]
              /\ tleft'[t] = tleft[t]
              /\ fpc'[t] = fpc[t]
              /\ fbatch'[t] = fbatch[t]
              /\ fsent'[t] = fsent[t]

C24_Step ==
    /\ \A c \in Calls :
          cpc[c] = "wait_lock" /\ cpc'[c] = "done" => OthersUntouched(ckey[c])
    /\ \A th \in Flushers :
          fpc[th] \in {"enter", "send"} /\ fpc'[th] /= fpc[th] => OthersUntouched(fkey[th])
    /\ mpc = "loop" /\ mpc' = "in_flush" => OthersUntouched(Head(mkeys))

\* a flush sends only notifications of its own key
C24_State ==
    \A th \in Flushers : \A c \in Covered(fsent[th]) : ckey[c] = fkey[th]

\* C24: the append of a submission for key K, a flush of K and the
\* cancelling of K's timer by flush_all leave the pending list, the timer
\* entry and the timers of every other key as they are, and what a flush
\* sends is made of notifications of its own key alone.
C24_KeysIndependent == [](C24_State) /\ [][C24_Step]_vars

\* calls 1 and 3 of one key were merged although call 2, of another key,
\* came between them and was sent on its own
C24_Witness ==
    /\ fkey[2] /= fkey[1]
    /\ SentBatch(3) = <<1, 3>> /\ Len(fsent[3]) = 1
    /\ SentBatch(2) = <<2>>

(***************************************************************************)
(* Merged messages                                                         *)
(***************************************************************************)
\* a batch has been merged
Merged == input.fn = "merge" /\ output /= NoOutput

\* the lines of a text that go by a name
LinesNamed(text, name) == SelectSeq(text, LAMBDA l : l[1] = name)

\* the line that shows a value, or no line for a value that is not truthy
ShowsLine(text, name, v) ==
    LinesNamed(text, name) = IF Truthy(v) THEN << <<name, Fmt(v)>> >> ELSE <<>>

\* C25: a merged message takes its title_year, rating, category, quality,
\* identifiers, summary and poster from the notification submitted first.
C25_BaseFromFirstSubmitted ==
    Merged =>
        LET first == input.arg[1].template_vars
            m == output[1]
        IN /\ m.title.title_year = first.title_year
           /\ ShowsLine(m.text, "rating", first.vote_average)
           /\ ShowsLine(m.text, "category", first.category)
           /\ LinesNamed(m.text, "quality") = AggregatedQualityLine(first)
           /\ ShowsLine(m.text, "tmdb id", first.tmdb_id)
           /\ ShowsLine(m.text, "overview", first.overview)
           /\ LinesNamed(m.text, "links") =
                  << <<"links">> \o Links(first.tmdb_id, first.douban_id, first.imdb_id,
                                          first.title_year) >>
           /\ m.photo_url = first.poster

\* a merged batch whose first notification is not its lowest episode and
\* differs from the next one in its attributes
C25_Witness ==
    /\ Merged
    /\ input.arg[1].template_vars.season_episode = SeasonEpisode(1, 2)
    /\ input.arg[2].template_vars.season_episode = SeasonEpisode(1, 1)
    /\ input.arg[1].template_vars.title_year /= input.arg[2].template_vars.title_year
    /\ input.arg[1].template_vars.poster /= input.arg[2].template_vars.poster
    /\ output[1].title.title_year = input.arg[1].template_vars.title_year

\* the notifications of a batch that lack season_episode
Codeless(notifications) ==
    { i \in 1..Len(notifications) : notifications[i].template_vars.season_episode = None }

\* C26: the episode count in the title of a merged message and the file
\* count in its body both equal the number of notifications in the batch,
\* whether or not each of them has a season_episode.
C26_CountsAreBatchSize ==
    Merged =>
        /\ output[1].title.shown.count = Len(input.arg)
        /\ LinesNamed(output[1].text, "files") = << <<"files">> \o Dec(Len(input.arg)) >>

\* a merged batch of three of which one has no season_episode
C26_Witness ==
    /\ Merged
    /\ Len(input.arg) = 3
    /\ Cardinality(Codeless(input.arg)) = 1
    /\ output[1].title.shown.count = 3
    /\ LinesNamed(output[1].text, "files") = << <<"files", "3">> >>

(***************************************************************************)
(* Sizes read back                                                         *)
(***************************************************************************)
\* a file size has been formatted and read back
ReadBack == input.fn = "file_size" /\ output /= NoOutput

\* a whole number of bytes as an amount
BytesAmount(n) == [mib |-> n.mib, cb |-> 100 * n.bytes]

\* amount a is no more than amount b
NoMore(a, b) == a.mib < b.mib \/ (a.mib = b.mib /\ a.cb <= b.cb)

\* half a hundredth of 1024^i bytes: what :.2f may round away in tier i
HalfHundredth(i) ==
    IF i = 0 THEN Amount(0, 0)
    ELSE IF i = 1 THEN Amount(0, 512)
    ELSE IF i = 2 THEN Amount(0, 512 * 1024)
    ELSE IF i = 3 THEN Amount(0, 512 * MiB)
    ELSE Amount(5242, 88 * MiB)

\* amounts a and b differ by no more than d
Within(a, b, d) == NoMore(a, Plus(b, d)) /\ NoMore(b, Plus(a, d))

\* C27: for every byte count n, in every tier format_size can emit (B, KB,
\* MB, GB, TB), the size loop reads format_size(n) back as n, up to the
\* two-decimal rounding of format_size.
C27_SizeReadBack ==
    ReadBack =>
        Within(output[1].bytes, BytesAmount(input.arg), HalfHundredth(SizeTier(input.arg)))

(***************************************************************************)
(* Sizes that cannot be read                                               *)
(***************************************************************************)
\* a size of the form '<number> <unit>' with a unit of format_size
Parsable(size_str) ==
    /\ size_str /= None
    /\ LET parts == SplitOn(size_str, " ", <<>>)
       IN /\ Len(parts) = 2
          /\ FloatOk(parts[1])
          /\ \E i \in 1..Len(size_names) : size_names[i] = parts[2]

\* C28: a size that is not '<number> <unit>' with a unit among B, KB, MB,
\* GB, TB (wrong token count, non-numeric value, unknown unit, missing)
\* adds 0 to the total of the batch, and a total of 0 leaves the size line
\* out.
C28_UnparsableAddsNothing ==
    SizesApplied =>
        /\ output[1].total_size = TotalSize(SelectSeq(input.arg, Parsable))
        /\ (output[1].total_size = Amount(0, 0) => output[1].total_size_str = None)

(***************************************************************************)
(* One notification, two paths                                             *)
(***************************************************************************)
\* a notification has been sent along both paths
SentBothWays == input.fn = "single" /\ output /= NoOutput

\* C29: for the same template variables, the title, body and image that
\* the immediate episode path hands to the sender are those that the
\* flush of a batch of exactly that notification hands to it.
C29_SinglePathsAgree ==
    SentBothWays =>
        /\ output[1].immediate.message.title = output[1].flushed.message.title
        /\ output[1].immediate.message.text = output[1].flushed.message.text
        /\ output[1].immediate.photo_url = output[1].flushed.photo_url

\* an episode with a poster, a code and a size sent along both paths
C29_Witness ==
    /\ SentBothWays
    /\ input.arg.template_vars.poster /= None
    /\ output[1].flushed.photo_url = input.arg.template_vars.poster
    /\ output[1].immediate.message.title.shown.episode_str = <<SeasonEpisode(1, 2)>>
    /\ LinesNamed(output[1].immediate.message.text, "size") /= <<>>

(***************************************************************************)
(* The quality line of the two renderers                                   *)
(***************************************************************************)
\* the two quality lines have been built
QualityApplied == input.fn = "quality" /\ output /= NoOutput

\* C30: for every video width, video height and quality text, the quality
\* line of a merged message equals the quality line the text template
\* prints for a single notification.
C30_SameQualityLine ==
    QualityApplied => output[1].merged = output[1].single

(***************************************************************************)
(* Order of arrival and order of the runs                                  *)
(***************************************************************************)
\* a batch has been merged in two orders of arrival
Arrived == input.fn = "arrival" /\ output /= NoOutput

\* the digits a text starts with
LeadingDigits(s) ==
    SubSeq(s, 1, Cardinality({ i \in 1..Len(s) : \A j \in 1..i : IsDigit(s[j]) }))

\* season and first episode that a range token SssEee or SssEee-Eee shows,
\* whatever the number of digits
TokenStart(t) ==
    LET parts == SplitOn(t, "E", <<>>)
    IN <<DigitsValue(Tail(parts[1]), 0), DigitsValue(LeadingDigits(parts[2]), 0)>>

\* (season, episode) a comes before b
PairBefore(a, b) == a[1] < b[1] \/ (a[1] = b[1] /\ a[2] < b[2])

\* no code occurs twice
Distinct(codes) == \A i, j \in 1..Len(codes) : codes[i] = codes[j] => i = j

\* C31: the episode range string of a merged title is the same for every
\* order of arrival of the codes, and its runs stand in ascending numeric
\* (season, episode) order, also for episode numbers of three digits,
\* whose order as texts is not their numeric order.
C31_OrderFreeAndNumeric ==
    Arrived =>
        LET tokens == output[1].episode_str IN
        /\ output[1].reordered = tokens
        /\ Len(tokens) > 1 =>
              \A i \in 1..(Len(tokens) - 1) :
                 /\ ~PairBefore(TokenStart(tokens[i + 1]), TokenStart(tokens[i]))
                 /\ Distinct(input.arg.codes) =>
                       PairBefore(TokenStart(tokens[i]), TokenStart(tokens[i + 1]))

\* episodes 99 to 101 and 2 of season 1, of which 100 sorts first as a
\* text, arrived in two different orders: two runs, 2 before 99-101
C31_Witness ==
    /\ Arrived
    /\ input.arg.codes = <<SeasonEpisode(1, 100), SeasonEpisode(1, 99),
                           SeasonEpisode(1, 2), SeasonEpisode(1, 101)>>
    /\ input.arg.order = <<4, 3, 2, 1>>
    /\ output[1].episode_str =
          << SeasonEpisode(1, 2),
             SeasonEpisode(1, 99) \o <<"-", "E", "1", "0", "1">> >>
    /\ output[1].reordered = output[1].episode_str

(***************************************************************************)
(* The episode code of the parser                                          *)
(***************************************************************************)
\* a payload has been parsed
Parsed == input.fn = "parse" /\ output /= NoOutput

\* text shows the number n in decimal, filled with zeros to two digits
ShowsPadded(text, n) ==
    /\ Len(text) >= 2
    /\ \A i \in 1..Len(text) : IsDigit(text[i])
    /\ DigitsValue(text, 0) = n
    /\ (Len(text) > 2 => text[1] /= "0")

\* code reads S, the season, E, the episode
IsSeasonEpisode(code, season, episode) ==
    LET parts == SplitOn(code, "E", <<>>)
    IN /\ Len(parts) = 2
       /\ parts[1] /= <<>> /\ Head(parts[1]) = "S"
       /\ ShowsPadded(Tail(parts[1]), season)
       /\ ShowsPadded(parts[2], episode)

\* C32: the parser gives season_episode exactly when the item is an
\* Episode and both ParentIndexNumber and IndexNumber are present, and
\* then in the form S{season:02d}E{episode:02d}; otherwise it is None.
C32_CodeIffEpisodeWithNumbers ==
    Parsed =>
        LET item == input.arg.tv[1].Item IN
        IF item.Type = "Episode" /\ item.ParentIndexNumber /= None /\ item.IndexNumber /= None
        THEN /\ output[1].season_episode /= None
             /\ IsSeasonEpisode(output[1].season_episode,
                                item.ParentIndexNumber[2], item.IndexNumber[2])
        ELSE output[1].season_episode = None

\* an episode of the specials, season 0: both numbers are present, and the
\* code is S00E05
C32_Witness ==
    /\ Parsed
    /\ input.arg.tv[1].Item.Type = "Episode"
    /\ input.arg.tv[1].Item.ParentIndexNumber = Num(0)
    /\ input.arg.tv[1].Item.IndexNumber = Num(5)
    /\ output[1].season_episode = <<"S", "0", "0", "E", "0", "5">>

(***************************************************************************)
(* The caption of a photo                                                  *)
(***************************************************************************)
\* send_message has been called
MessageSent == input.fn = "send_message" /\ output /= NoOutput

\* C33: the caption passed to send_photo never exceeds 1024 characters: a
\* title and body of at most 1024 characters together are passed
\* unchanged, a longer text is cut to its first 1021 characters followed
\* by '...'; without an image the full text is sent uncut.
C33_CaptionCut ==
    MessageSent /\ input.arg.configured =>
        LET full == input.arg.title \o <<"\n", "\n">> \o input.arg.text
            image == input.arg.photo_url = StrId("poster")
        IN /\ image =>
                /\ output[1].method = "sendPhoto"
                /\ Len(output[1].caption) <= 1024
                /\ Len(full) <= 1024 => output[1].caption = full
                /\ Len(full) > 1024 =>
                      output[1].caption = SubSeq(full, 1, 1021) \o <<".", ".", ".">>
           /\ ~image =>
                /\ output[1].method = "sendMessage"
                /\ output[1].text = full

\* a title and body of 1025 characters together with an image: the
\* caption has 1024 characters and ends in '...'
C33_Witness ==
    /\ MessageSent
    /\ input.arg.configured
    /\ input.arg.photo_url = StrId("poster")
    /\ Len(input.arg.title) + 2 + Len(input.arg.text) = 1025
    /\ output[1].method = "sendPhoto"
    /\ Len(output[1].caption) = 1024
    /\ SubSeq(output[1].caption, 1022, 1024) = <<".", ".", ".">>

=============================================================================
